---- MODULE Spec2Model ----
(***************************************************************************)
(* AutoInsight: CSV ingestion, schema inference, quality profiling,        *)
(* cleaning, export, the sales question engine and the visual query        *)
(* builder, modelled as state machines over character-level strings.       *)
(*                                                                         *)
(* A JS string is a sequence of one-character strings; a cell value is a   *)
(* record [t, s, n]: t = "str" (text s), "num" (integer n) or "null".      *)
(* A row is the sequence of its cells in header (insertion) order.         *)
(***************************************************************************)
EXTENDS Integers, Sequences, FiniteSets, TLC

(***************************************************************************)
(* Bounds of the model.                                                    *)
(***************************************************************************)
MaxRows == 3

MaxAiRows == 2

MaxQueryRows == 3

MaxFilters == 1

(***************************************************************************)
(* Bind(e, F) is F(e) with e evaluated once.                               *)
(***************************************************************************)
Bind(e, F(_)) == CHOOSE r \in {F(x) : x \in {e}} : TRUE

(***************************************************************************)
(* Strings.                                                                *)
(***************************************************************************)
Digits == <<"0", "1", "2", "3", "4", "5", "6", "7", "8", "9">>

DigitSet == {Digits[i] : i \in 1..10}

\* \s of a regular expression, and what trim removes
IsSpace(c) == c \in {" ", "\t", "\n", "\r"}

RECURSIVE TrimLeft(_)
TrimLeft(s) ==
  IF s # <<>> /\ IsSpace(Head(s)) THEN TrimLeft(Tail(s)) ELSE s

RECURSIVE TrimRight(_)
TrimRight(s) ==
  IF s # <<>> /\ IsSpace(s[Len(s)]) THEN TrimRight(SubSeq(s, 1, Len(s) - 1)) ELSE s

\* String.prototype.trim
Trim(s) == TrimRight(TrimLeft(s))

LowerLetters ==
  <<"a", "b", "c", "d", "e", "f", "g", "h", "i", "j", "k", "l", "m", "n", "o", "p", "q", "r", "s", "t", "u", "v", "w", "x", "y", "z">>

UpperLetters ==
  <<"A", "B", "C", "D", "E", "F", "G", "H", "I", "J", "K", "L", "M", "N", "O", "P", "Q", "R", "S", "T", "U", "V", "W", "X", "Y", "Z">>

LetterSet == {LowerLetters[i] : i \in 1..26} \cup {UpperLetters[i] : i \in 1..26}

LowerChar(c) ==
  IF \E i \in 1..26 : UpperLetters[i] = c
    THEN LowerLetters[CHOOSE i \in 1..26 : UpperLetters[i] = c]
    ELSE c

\* String.prototype.toLowerCase
ToLower(s) == [i \in 1..Len(s) |-> LowerChar(s[i])]

\* String.prototype.includes
Includes(s, sub) ==
  \E i \in 0..(Len(s) - Len(sub)) : SubSeq(s, i + 1, i + Len(sub)) = sub

RECURSIVE Join(_, _)
\* Array.prototype.join over strings
Join(parts, sep) ==
  IF parts = <<>> THEN <<>>
  ELSE IF Len(parts) = 1 THEN parts[1]
  ELSE parts[1] \o sep \o Join(Tail(parts), sep)

RECURSIVE Split(_, _)
\* String.prototype.split on a one-character separator
Split(s, c) ==
  IF \A i \in 1..Len(s) : s[i] # c THEN <<s>>
  ELSE LET k == CHOOSE i \in 1..Len(s) : s[i] = c /\ \A j \in 1..(i - 1) : s[j] # c
       IN <<SubSeq(s, 1, k - 1)>> \o Split(SubSeq(s, k + 1, Len(s)), c)

RECURSIVE NatToStr(_)
NatToStr(n) ==
  IF n < 10 THEN <<Digits[n + 1]>> ELSE NatToStr(n \div 10) \o <<Digits[(n % 10) + 1]>>

\* String(n) for an integer n
NumToStr(n) == IF n < 0 THEN <<"-">> \o NatToStr(-n) ELSE NatToStr(n)

DigitVal(c) == CHOOSE d \in 0..9 : Digits[d + 1] = c

RECURSIVE DigitsToNat(_)
DigitsToNat(s) ==
  IF s = <<>> THEN 0 ELSE DigitsToNat(SubSeq(s, 1, Len(s) - 1)) * 10 + DigitVal(s[Len(s)])

AllDigits(s) == s # <<>> /\ \A i \in 1..Len(s) : s[i] \in DigitSet

\* Number(s) for a string: [nan |-> TRUE] or the integer.  Blank text is 0,
\* an optionally signed run of digits is its value, anything else is NaN.
StrToNumber(s) ==
  LET t == Trim(s) IN
  IF t = <<>> THEN [nan |-> FALSE, n |-> 0]
  ELSE IF AllDigits(t) THEN [nan |-> FALSE, n |-> DigitsToNat(t)]
  ELSE IF Head(t) \in {"-", "+"} /\ AllDigits(Tail(t))
    THEN [nan |-> FALSE, n |-> IF Head(t) = "-" THEN -DigitsToNat(Tail(t)) ELSE DigitsToNat(Tail(t))]
  ELSE [nan |-> TRUE, n |-> 0]

(***************************************************************************)
(* Cell values (string | number | null).                                   *)
(***************************************************************************)
Str(s) == [t |-> "str", s |-> s, n |-> 0]

Num(n) == [t |-> "num", s |-> <<>>, n |-> n]

Null == [t |-> "null", s |-> <<>>, n |-> 0]

\* String(v) of a non-null cell
CellToStr(v) == IF v.t = "num" THEN NumToStr(v.n) ELSE v.s

\* String(v ?? "")
StrOrEmpty(v) == IF v.t = "null" THEN <<>> ELSE CellToStr(v)

\* Number(v) of a cell (Number(null) is 0)
CellToNumber(v) ==
  IF v.t = "num" THEN [nan |-> FALSE, n |-> v.n]
  ELSE IF v.t = "null" THEN [nan |-> FALSE, n |-> 0]
  ELSE StrToNumber(v.s)

(***************************************************************************)
(* CSV parser (csvAnalysis.ts).                                            *)
(***************************************************************************)
Quote == "\""

Comma == ","

Newline == "\n"

\* text.replace(/\r\n/g, "\n").replace(/\r/g, "\n"): the "\r" of every
\* "\r\n" is dropped, every other "\r" becomes "\n"
NormalizeNewlines(s) ==
  Bind(SelectSeq([i \in 1..Len(s) |-> i],
                 LAMBDA i : ~(s[i] = "\r" /\ i < Len(s) /\ s[i + 1] = Newline)), LAMBDA kept :
    [k \in 1..Len(kept) |-> IF s[kept[k]] = "\r" THEN Newline ELSE s[kept[k]]])

\* .split("\n").filter(l => l.trim().length > 0)
CsvLines(text) ==
  SelectSeq(Split(NormalizeNewlines(text), Newline), LAMBDA l : Trim(l) # <<>>)

RECURSIVE parseLineFrom(_, _, _, _, _)
\* the loop of parseLine: i is the 1-based position, cur the field buffer,
\* inQuotes the tokenizer state, out the fields pushed so far
parseLineFrom(line, i, cur, inQuotes, out) ==
  IF i > Len(line) THEN Append(out, Trim(cur))
  ELSE IF line[i] = Quote
    THEN IF inQuotes /\ i + 1 <= Len(line) /\ line[i + 1] = Quote
           THEN parseLineFrom(line, i + 2, Append(cur, Quote), inQuotes, out)
           ELSE parseLineFrom(line, i + 1, cur, ~inQuotes, out)
  ELSE IF line[i] = Comma /\ ~inQuotes
    THEN parseLineFrom(line, i + 1, <<>>, inQuotes, Append(out, Trim(cur)))
  ELSE parseLineFrom(line, i + 1, Append(cur, line[i]), inQuotes, out)

parseLine(line) == parseLineFrom(line, 1, <<>>, FALSE, <<>>)

\* v.replace(/^"|"$/g, "").trim()
StripQuotes(v) ==
  LET a == IF v # <<>> /\ Head(v) = Quote THEN Tail(v) ELSE v
      b == IF a # <<>> /\ a[Len(a)] = Quote THEN SubSeq(a, 1, Len(a) - 1) ELSE a
  IN Trim(b)

parseCsv(text) ==
  Bind(CsvLines(text), LAMBDA lines :
    IF lines = <<>> THEN [headers |-> <<>>, rows |-> <<>>]
    ELSE [headers |-> Bind(parseLine(lines[1]), LAMBDA f : [i \in 1..Len(f) |-> StripQuotes(f[i])]),
          rows |-> [k \in 1..(Len(lines) - 1) |->
                      Bind(parseLine(lines[k + 1]), LAMBDA f : [i \in 1..Len(f) |-> StripQuotes(f[i])])]])

(***************************************************************************)
(* Schema inference (csvAnalysis.ts).                                      *)
(***************************************************************************)
SampleSize == 40

NumRatioPct == 85

\* isEmpty(v)
isEmpty(v) ==
  IF v.t = "null" THEN TRUE
  ELSE LET s == Trim(CellToStr(v)) IN
       \/ s = <<>>
       \/ ToLower(s) = <<"n", "u", "l", "l">>
       \/ ToLower(s) = <<"n", "a", "n">>
       \/ ToLower(s) = <<"n", "o", "n", "e">>

\* a text without its leading sign
Unsigned(t) == IF t # <<>> /\ Head(t) \in {"-", "+"} THEN Tail(t) ELSE t

\* a decimal literal of Number(): optionally signed digits with at most one
\* point, "5." and ".5" included (the model's texts hold no exponent, no
\* radix prefix and no Infinity)
IsDecimalLiteral(t) ==
  \/ AllDigits(Unsigned(t))
  \/ /\ Len(Unsigned(t)) > 1
     /\ \E p \in 1..Len(Unsigned(t)) :
          \A i \in 1..Len(Unsigned(t)) : (Unsigned(t)[i] = ".") = (i = p) /\ (i # p => Unsigned(t)[i] \in DigitSet)

\* Number.isFinite(Number(raw)): blank text converts to 0
IsNumberText(raw) == Trim(raw) = <<>> \/ IsDecimalLiteral(Trim(raw))

\* String(v).trim().replace(/,/g, "")
RawNumberText(v) == SelectSeq(Trim(CellToStr(v)), LAMBDA c : c # Comma)

\* tryParseNumber(v).ok: commas are removed before Number()
tryParseNumberOk(v) ==
  \/ isEmpty(v)
  \/ IsNumberText(RawNumberText(v))

\* a YYYY-MM-DD text with a month 01..12 and a day 01..31
IsIsoDate(s) ==
  /\ Len(s) = 10
  /\ s[5] = "-" /\ s[8] = "-"
  /\ \A i \in {1, 2, 3, 4, 6, 7, 9, 10} : s[i] \in DigitSet
  /\ DigitsToNat(SubSeq(s, 6, 7)) \in 1..12
  /\ DigitsToNat(SubSeq(s, 9, 10)) \in 1..31

\* tryParseDate(v).ok: new Date(s) is a valid date.  Date-only ISO text is
\* accepted by every engine; a bare run of digits is accepted by the legacy
\* parser of the engine (lenient) or rejected.
tryParseDateOk(v, lenient) ==
  \/ isEmpty(v)
  \/ IsIsoDate(Trim(CellToStr(v)))
  \/ (lenient /\ AllDigits(Trim(CellToStr(v))))

\* inferType(values) without the slice(0, 40) of the sample
inferTypeWholeColumn(values, lenient) ==
  LET sample == SelectSeq(values, LAMBDA v : ~isEmpty(v))
      numOk == Cardinality({i \in 1..Len(sample) : tryParseNumberOk(sample[i])})
      dateOk == Cardinality({i \in 1..Len(sample) : tryParseDateOk(sample[i], lenient)})
  IN IF Len(sample) = 0 THEN "string"
     ELSE IF numOk * 100 >= NumRatioPct * Len(sample) THEN "number"
     ELSE IF dateOk * 100 >= NumRatioPct * Len(sample) /\ numOk * 2 < Len(sample) THEN "date"
     ELSE "string"

\* inferType(values)
inferType(values, lenient) ==
  LET nonEmpty == SelectSeq(values, LAMBDA v : ~isEmpty(v))
      sample == SubSeq(nonEmpty, 1, IF Len(nonEmpty) < SampleSize THEN Len(nonEmpty) ELSE SampleSize)
      numOk == Cardinality({i \in 1..Len(sample) : tryParseNumberOk(sample[i])})
      dateOk == Cardinality({i \in 1..Len(sample) : tryParseDateOk(sample[i], lenient)})
  IN IF Len(sample) = 0 THEN "string"
     ELSE IF numOk * 100 >= NumRatioPct * Len(sample) THEN "number"
     ELSE IF dateOk * 100 >= NumRatioPct * Len(sample) /\ numOk * 2 < Len(sample) THEN "date"
     ELSE "string"

\* countMissing(values)
countMissing(values) == Cardinality({i \in 1..Len(values) : isEmpty(values[i])})

\* countInvalid(values, expected)
countInvalid(values, expected, lenient) ==
  Cardinality({i \in 1..Len(values) :
    /\ ~isEmpty(values[i])
    /\ \/ expected = "number" /\ ~tryParseNumberOk(values[i])
       \/ expected = "date" /\ ~tryParseDateOk(values[i], lenient)})

(***************************************************************************)
(* Duplicate counters.                                                     *)
(***************************************************************************)
RECURSIVE JsonEscape(_)
\* the characters of a JSON string literal
JsonEscape(s) ==
  IF s = <<>> THEN <<>>
  ELSE (IF Head(s) \in {Quote, "\\"} THEN <<"\\", Head(s)>> ELSE <<Head(s)>>) \o JsonEscape(Tail(s))

JsonString(s) == <<Quote>> \o JsonEscape(s) \o <<Quote>>

JsonValue(v) ==
  IF v.t = "str" THEN JsonString(v.s)
  ELSE IF v.t = "num" THEN NumToStr(v.n)
  ELSE <<"n", "u", "l", "l">>

\* JSON.stringify(o) of a row object with keys headers
JsonStringify(headers, row) ==
  <<"{">> \o Join([i \in 1..Len(headers) |-> JsonString(headers[i]) \o <<":">> \o JsonValue(row[i])], <<",">>)
        \o <<"}">>

RECURSIVE CountSeenAgain(_, _, _)
\* for (k of keys) { if (seen.has(k)) dup++; else seen.add(k) }
CountSeenAgain(keys, seen, dup) ==
  IF keys = <<>> THEN dup
  ELSE IF Head(keys) \in seen THEN CountSeenAgain(Tail(keys), seen, dup + 1)
  ELSE CountSeenAgain(Tail(keys), seen \cup {Head(keys)}, dup)

\* a profiler that counts every copy of a repeated key, the first included
estimateDuplicatesAllCopies(headers, objects) ==
  Cardinality({i \in 1..Len(objects) :
                 \E j \in 1..Len(objects) :
                   j # i /\ JsonStringify(headers, objects[j]) = JsonStringify(headers, objects[i])})

\* estimateDuplicates(objects): hash by JSON string
estimateDuplicates(headers, objects) ==
  CountSeenAgain([i \in 1..Len(objects) |-> JsonStringify(headers, objects[i])], {}, 0)

Sep == <<"|", "|">>

\* buildRowSignature(row, headers)
buildRowSignature(row, headers) ==
  Join([i \in 1..Len(headers) |-> Trim(StrOrEmpty(row[i]))], Sep)

\* Object.values(row).join("||")
ValuesSignature(row) == Join([i \in 1..Len(row) |-> StrOrEmpty(row[i])], Sep)

(***************************************************************************)
(* State of the application (App).                                         *)
(*   heap        row objects by identity: id -> sequence of cells          *)
(*   rows        the parsed collection, a sequence of row object ids       *)
(*   cleanedRows the working collection, a sequence of row object ids      *)
(*   headers     the keys of every row object, in insertion order          *)
(*   lenient     whether the engine's Date parser accepts bare digits      *)
(*   exported    the CSV text of the last export                           *)
(*   lastOp      the handler that ran last (history)                       *)
(***************************************************************************)
VARIABLES currentScreen, selectedFile, dataSummary, cleaningIssues, rows,
          cleanedRows, heap, headers, lenient, exported, lastOp


appVars == <<currentScreen, selectedFile, dataSummary, cleaningIssues, rows,
             cleanedRows, heap, headers, lenient, exported, lastOp>>

(***************************************************************************)
(* State of the analysis panel (assistant and quality dashboard).          *)
(*   args          the question, rows and headers given to the assistant   *)
(*   answer        the last Answer of answerSalesQuestion                  *)
(*   qualityReport the last report of generateQualityReport                *)
(***************************************************************************)
VARIABLES args, answer, qualityReport

aiVars == <<args, answer, qualityReport>>

NoFile == <<"<no file>">>

NoValue == [none |-> TRUE]

EmptyHeap == <<>>

\* the values of a collection of row objects
RowVals(h, ids) == [i \in 1..Len(ids) |-> h[ids[i]]]

(***************************************************************************)
(* analyzeCsvFile(file): parse, build row objects, infer the schema,       *)
(* profile.                                                                *)
(***************************************************************************)
\* obj[headers[i]] = r[i] ?? ""
RowObject(hdrs, r) == [i \in 1..Len(hdrs) |-> IF i <= Len(r) THEN Str(r[i]) ELSE Str(<<>>)]

Column(objects, i) == [k \in 1..Len(objects) |-> objects[k][i]]

analyzeCsvFile(text, len) ==
  Bind(parseCsv(text), LAMBDA parsed :
    Bind([k \in 1..Len(parsed.rows) |-> RowObject(parsed.headers, parsed.rows[k])], LAMBDA objects :
      Bind([i \in 1..Len(parsed.headers) |->
              [name |-> parsed.headers[i], type |-> inferType(Column(objects, i), len)]],
           LAMBDA columnDetailsRaw :
        Bind(estimateDuplicates(parsed.headers, objects), LAMBDA duplicates :
          [dataSummary |-> [rows |-> Len(objects), columns |-> Len(parsed.headers),
                            duplicates |-> duplicates, columnDetails |-> columnDetailsRaw],
           cleaningIssues |->
             [missingValues |->
                SelectSeq([i \in 1..Len(parsed.headers) |->
                             [name |-> parsed.headers[i], type |-> columnDetailsRaw[i].type,
                              missing |-> countMissing(Column(objects, i))]],
                          LAMBDA c : c.missing > 0),
              invalidTypes |->
                SelectSeq([i \in 1..Len(parsed.headers) |->
                             [name |-> parsed.headers[i], type |-> columnDetailsRaw[i].type,
                              invalid |-> countInvalid(Column(objects, i), columnDetailsRaw[i].type, len)]],
                          LAMBDA c : c.invalid > 0),
              outliers |-> <<>>,
              duplicates |-> duplicates],
           headers |-> parsed.headers,
           rows |-> objects]))))

(***************************************************************************)
(* cleanData(rows, type, summary): every pass maps each row to a copy      *)
(* ({ ...row }) and writes the copy; the passes thread the object heap.    *)
(***************************************************************************)
\* new Date().toISOString().split("T")[0]
Today == <<"2", "0", "2", "6", "-", "1", "1", "-", "0", "3">>

Unknown == <<"U", "n", "k", "n", "o", "w", "n">>

\* a pass that writes into the row it was given instead of a copy
CopyRowIdAlias(h, ids, i) == ids[i]

\* const newRow = { ...row }: the identity of the copy of the i-th row of
\* the collection ids, a fresh object of the heap (a sequence of objects)
CopyRowId(h, ids, i) == Len(h) + i

\* newRow[col] === null || newRow[col] === "" || newRow[col] === undefined
IsBlankCell(v) == v.t = "null" \/ (v.t = "str" /\ v.s = <<>>)

MissingPlaceholder(type) ==
  IF type = "number" THEN Num(0)
  ELSE IF type = "date" THEN Str(Today)
  ELSE Str(Unknown)

\* the cell the missing pass leaves in a column of this type
ImputeCell(v, type) == IF IsBlankCell(v) THEN MissingPlaceholder(type) ELSE v

\* new Date(val).toISOString().split("T")[0] for a number of milliseconds
\* or null (the model's numbers are far below one day of milliseconds)
DateOfNonString(v) ==
  IF v.t = "num" /\ v.n < 0
    THEN <<"1", "9", "6", "9", "-", "1", "2", "-", "3", "1">>
    ELSE <<"1", "9", "7", "0", "-", "0", "1", "-", "0", "1">>

\* the cell the invalid pass leaves in a column of this type
CoerceCell(v, type) ==
  IF type = "number" /\ v.t # "num"
    THEN (IF CellToNumber(v).nan THEN Num(0) ELSE Num(CellToNumber(v).n))
  ELSE IF type = "date" /\ v.t # "str" THEN Str(DateOfNonString(v))
  ELSE v

\* the cells one pass writes into the copy of a row
PassCells(row, cols, pass) ==
  [i \in 1..Len(row) |->
     IF i > Len(cols) THEN row[i]
     ELSE IF pass = "missing" THEN ImputeCell(row[i], cols[i].type)
     ELSE CoerceCell(row[i], cols[i].type)]

\* cleaned.map(row => { const newRow = { ...row }; ...; return newRow }):
\* a new collection holding, for each row, the object the pass wrote
MapPass(h, ids, cols, pass) ==
  Bind(<<h, ids>>, LAMBDA a :
    Bind([i \in 1..Len(a[2]) |-> CopyRowId(a[1], a[2], i)], LAMBDA target :
      [heap |-> [id \in 1..(Len(a[1]) + Cardinality({target[i] : i \in 1..Len(target)} \ (1..Len(a[1])))) |->
                   IF \E i \in 1..Len(target) : target[i] = id
                     THEN PassCells(a[1][a[2][CHOOSE i \in 1..Len(target) : target[i] = id]], cols, pass)
                     ELSE a[1][id]],
       ids |-> target]))

RECURSIVE FilterSeen(_, _, _)
\* cleaned.filter(row => { if (seen.has(sig)) return false; seen.add(sig); return true })
FilterSeen(h, ids, seen) ==
  IF ids = <<>> THEN <<>>
  ELSE LET sig == ValuesSignature(h[Head(ids)]) IN
       IF sig \in seen THEN FilterSeen(h, Tail(ids), seen)
       ELSE <<Head(ids)>> \o FilterSeen(h, Tail(ids), seen \cup {sig})

RemoveDuplicates(h, ids) == FilterSeen(h, ids, {})

\* a transformer that removes duplicates before the other two passes
cleanDataDedupeFirst(h, ids, type, summary) ==
  Bind(IF type = "auto" THEN [heap |-> h, ids |-> RemoveDuplicates(h, ids)]
       ELSE [heap |-> h, ids |-> ids], LAMBDA d :
    Bind(IF type \in {"auto", "missing"} THEN MapPass(d.heap, d.ids, summary.columnDetails, "missing")
         ELSE d, LAMBDA a :
      IF type \in {"auto", "invalid"} THEN MapPass(a.heap, a.ids, summary.columnDetails, "invalid")
      ELSE a))

\* a transformer that removes duplicates in every mode
cleanDataDedupeAlways(h, ids, type, summary) ==
  Bind(IF type \in {"auto", "missing"} THEN MapPass(h, ids, summary.columnDetails, "missing")
       ELSE [heap |-> h, ids |-> ids], LAMBDA a :
    Bind(IF type \in {"auto", "invalid"} THEN MapPass(a.heap, a.ids, summary.columnDetails, "invalid")
         ELSE a, LAMBDA b :
      [heap |-> b.heap, ids |-> RemoveDuplicates(b.heap, b.ids)]))

\* cleanData(rows, type, summary)
cleanData(h, ids, type, summary) ==
  Bind(IF type \in {"auto", "missing"} THEN MapPass(h, ids, summary.columnDetails, "missing")
       ELSE [heap |-> h, ids |-> ids], LAMBDA a :
    Bind(IF type \in {"auto", "invalid"} THEN MapPass(a.heap, a.ids, summary.columnDetails, "invalid")
         ELSE a, LAMBDA b :
      IF type = "auto" THEN [heap |-> b.heap, ids |-> RemoveDuplicates(b.heap, b.ids)]
      ELSE b))

\* calculateCleaningIssues(rows, columnDetails) over row values
calculateCleaningIssues(vals, columnDetails) ==
  LET colIdx == [i \in 1..Len(columnDetails) |-> i]
      hasMissing(i) == \E k \in 1..Len(vals) : IsBlankCell(vals[k][i])
      hasInvalid(i) == \E k \in 1..Len(vals) :
                         /\ columnDetails[i].type = "number"
                         /\ vals[k][i].t # "num"
                         /\ ~IsBlankCell(vals[k][i])
                         /\ CellToNumber(vals[k][i]).nan
      pick(P(_)) == [j \in 1..Len(SelectSeq(colIdx, P)) |-> columnDetails[SelectSeq(colIdx, P)[j]]]
  IN [missingValues |-> pick(hasMissing),
      invalidTypes |-> pick(hasInvalid),
      outliers |-> <<>>,
      duplicates |-> CountSeenAgain([k \in 1..Len(vals) |-> ValuesSignature(vals[k])], {}, 0)]

RECURSIVE Uniq(_, _)
Uniq(ids, seen) ==
  IF ids = <<>> THEN <<>>
  ELSE IF Head(ids) \in seen THEN Uniq(Tail(ids), seen)
  ELSE <<Head(ids)>> \o Uniq(Tail(ids), seen \cup {Head(ids)})

\* Garbage collection: keep the objects reachable from rows and cleanedRows,
\* renamed in order of first reference.
Collect(h, rs, cs) ==
  Bind(Uniq(rs \o cs, {}), LAMBDA live :
    [heap |-> [k \in 1..Len(live) |-> h[live[k]]],
     rows |-> [i \in 1..Len(rs) |-> CHOOSE k \in 1..Len(live) : live[k] = rs[i]],
     cleanedRows |-> [i \in 1..Len(cs) |-> CHOOSE k \in 1..Len(live) : live[k] = cs[i]]])

(***************************************************************************)
(* handleExport: the CSV text of the cleaned rows.                         *)
(***************************************************************************)
\* str.includes(",") ? `"${str}"` : str
ExportField(v) ==
  LET str == StrOrEmpty(v) IN
  IF Includes(str, <<Comma>>) THEN <<Quote>> \o str \o <<Quote>> ELSE str

ExportCsv(hdrs, vals) ==
  Join(<<Join(hdrs, <<Comma>>)>>
         \o [k \in 1..Len(vals) |-> Join([i \in 1..Len(hdrs) |-> ExportField(vals[k][i])], <<Comma>>)],
       <<Newline>>)

(***************************************************************************)
(* Text helpers of the sales question engine (salesAI.ts).                 *)
(***************************************************************************)
\* \w of a regular expression
IsWordChar(c) == c \in LetterSet \cup DigitSet \cup {"_"}

RECURSIVE CollapseSpaces(_)
\* s.replace(/\s+/g, " ")
CollapseSpaces(s) ==
  IF s = <<>> THEN <<>>
  ELSE IF IsSpace(Head(s)) THEN <<" ">> \o CollapseSpaces(TrimLeft(Tail(s)))
  ELSE <<Head(s)>> \o CollapseSpaces(Tail(s))

\* norm(s)
norm(s) == CollapseSpaces(Trim(ToLower(s)))

\* stripPunct(s)
stripPunct(s) ==
  Trim(CollapseSpaces([i \in 1..Len(s) |-> IF IsWordChar(s[i]) \/ IsSpace(s[i]) THEN s[i] ELSE " "]))

\* s.indexOf(sub), 0-based, -1 when absent
IndexOf(s, sub) ==
  IF Includes(s, sub)
    THEN CHOOSE i \in 0..(Len(s) - Len(sub)) :
           /\ SubSeq(s, i + 1, i + Len(sub)) = sub
           /\ \A j \in 0..(i - 1) : SubSeq(s, j + 1, j + Len(sub)) # sub
    ELSE -1

\* s.slice(from), from 0-based
SliceFrom(s, from) == SubSeq(s, from + 1, Len(s))

\* toNumberSafe(v): [nan |-> TRUE] stands for null
toNumberSafe(v) ==
  IF v.t = "null" \/ Trim(CellToStr(v)) = <<>> THEN [nan |-> TRUE, n |-> 0]
  ELSE StrToNumber(SelectSeq(Trim(CellToStr(v)), LAMBDA c : c \notin {"$", Comma}))

\* toDateSafe(v) !== null
toDateSafeOk(v, len) ==
  /\ v.t # "null"
  /\ Trim(CellToStr(v)) # <<>>
  /\ IsIsoDate(Trim(CellToStr(v))) \/ (len /\ AllDigits(Trim(CellToStr(v))))

ColumnKeys == {"customer", "product", "category", "date", "revenue", "quantity", "status", "region"}

SYNONYMS ==
  [key \in ColumnKeys |->
     CASE key = "customer" -> <<<<"c", "u", "s", "t", "o", "m", "e", "r">>, <<"c", "u", "s", "t", "o", "m", "e", "r", " ", "n", "a", "m", "e">>, <<"c", "l", "i", "e", "n", "t">>, <<"c", "l", "i", "e", "n", "t", " ", "n", "a", "m", "e">>,
                                <<"b", "u", "y", "e", "r">>, <<"n", "a", "m", "e">>, <<"c", "u", "s", "t", "o", "m", "e", "r", "n", "a", "m", "e">>>>
       [] key = "product" -> <<<<"p", "r", "o", "d", "u", "c", "t">>, <<"i", "t", "e", "m">>, <<"i", "t", "e", "m", " ", "n", "a", "m", "e">>, <<"s", "k", "u">>, <<"p", "r", "o", "d", "u", "c", "t", " ", "n", "a", "m", "e">>>>
       [] key = "category" -> <<<<"c", "a", "t", "e", "g", "o", "r", "y">>, <<"p", "r", "o", "d", "u", "c", "t", " ", "c", "a", "t", "e", "g", "o", "r", "y">>, <<"s", "e", "g", "m", "e", "n", "t">>, <<"t", "y", "p", "e">>>>
       [] key = "date" -> <<<<"d", "a", "t", "e">>, <<"o", "r", "d", "e", "r", " ", "d", "a", "t", "e">>, <<"o", "r", "d", "e", "r", "d", "a", "t", "e">>, <<"i", "n", "v", "o", "i", "c", "e", " ", "d", "a", "t", "e">>,
                            <<"t", "r", "a", "n", "s", "a", "c", "t", "i", "o", "n", " ", "d", "a", "t", "e">>, <<"s", "a", "l", "e", "s", " ", "d", "a", "t", "e">>>>
       [] key = "revenue" -> <<<<"r", "e", "v", "e", "n", "u", "e">>, <<"s", "a", "l", "e", "s">>, <<"a", "m", "o", "u", "n", "t">>, <<"t", "o", "t", "a", "l">>, <<"t", "o", "t", "a", "l", " ", "a", "m", "o", "u", "n", "t">>,
                               <<"p", "r", "i", "c", "e">>, <<"s", "a", "l", "e", " ", "a", "m", "o", "u", "n", "t">>>>
       [] key = "quantity" -> <<<<"q", "u", "a", "n", "t", "i", "t", "y">>, <<"q", "t", "y">>, <<"u", "n", "i", "t", "s">>, <<"u", "n", "i", "t", " ", "s", "o", "l", "d">>, <<"i", "t", "e", "m", "s">>>>
       [] key = "status" -> <<<<"s", "t", "a", "t", "u", "s">>, <<"s", "t", "a", "t", "e">>>>
       [] key = "region" -> <<<<"r", "e", "g", "i", "o", "n">>, <<"a", "r", "e", "a">>, <<"l", "o", "c", "a", "t", "i", "o", "n">>, <<"c", "o", "u", "n", "t", "r", "y">>, <<"c", "i", "t", "y">>>>]

\* a column that could not be resolved (null)
NoColumn == <<"<null>">>

\* buildHeaderMap(headers).get(k): the last header whose norm is k
HeaderMapGet(hdrs, k) ==
  IF \E i \in 1..Len(hdrs) : norm(hdrs[i]) = k
    THEN hdrs[CHOOSE i \in 1..Len(hdrs) :
                norm(hdrs[i]) = k /\ \A j \in (i + 1)..Len(hdrs) : norm(hdrs[j]) # k]
    ELSE NoColumn

\* Array.prototype.find over headers
FindHeader(hdrs, P(_)) ==
  IF \E i \in 1..Len(hdrs) : P(hdrs[i])
    THEN hdrs[CHOOSE i \in 1..Len(hdrs) : P(hdrs[i]) /\ \A j \in 1..(i - 1) : ~P(hdrs[j])]
    ELSE NoColumn

\* a string that is truthy: found and not empty
Truthy(x) == x # NoColumn /\ x # <<>>

RECURSIVE FirstExact(_, _)
\* the first synonym with an exact (normalized) header, in synonym order
FirstExact(hdrs, syns) ==
  IF syns = <<>> THEN NoColumn
  ELSE Bind(HeaderMapGet(hdrs, norm(Head(syns))), LAMBDA found :
         IF Truthy(found) THEN found ELSE FirstExact(hdrs, Tail(syns)))

RECURSIVE FirstFuzzy(_, _)
\* the first synonym contained in some header, in synonym order
FirstFuzzy(hdrs, syns) ==
  IF syns = <<>> THEN NoColumn
  ELSE Bind(norm(Head(syns)), LAMBDA sn :
         Bind(FindHeader(hdrs, LAMBDA h : Includes(norm(h), sn)), LAMBDA match :
           IF match # NoColumn THEN match ELSE FirstFuzzy(hdrs, Tail(syns))))

\* resolveColumn(headers, key)
resolveColumn(hdrs, key) ==
  Bind(FirstExact(hdrs, SYNONYMS[key]), LAMBDA found :
    IF found # NoColumn THEN found ELSE FirstFuzzy(hdrs, SYNONYMS[key]))

\* row[col]: the cell of a row object under a header name (undefined is null)
Cell(row, hdrs, col) ==
  IF \E i \in 1..Len(hdrs) : hdrs[i] = col /\ i <= Len(row)
    THEN row[CHOOSE i \in 1..Len(hdrs) :
               hdrs[i] = col /\ i <= Len(row) /\ \A j \in (i + 1)..Len(hdrs) : hdrs[j] # col]
    ELSE Null

(***************************************************************************)
(* Question parsing (salesAI.ts): the regular expressions are modelled by   *)
(* the matches they find; questions hold no line terminator.               *)
(***************************************************************************)
\* the number of consecutive characters of s from position j that are in S
RunOf(s, j, S) ==
  CHOOSE n \in 0..(Len(s) - j + 1) :
    /\ \A m \in j..(j + n - 1) : s[m] \in S
    /\ j + n > Len(s) \/ s[j + n] \notin S

SpaceSet == {" ", "\t", "\n", "\r"}

\* /^(.+?)\s+kw\s+(.+)$/i can match with s[1..p] as its first group: white
\* space, the keyword, white space and at least one more character follow
KeywordAt(s, p, kw) ==
  /\ RunOf(s, p + 1, SpaceSet) >= 1
  /\ p + RunOf(s, p + 1, SpaceSet) + Len(kw) + 2 <= Len(s)
  /\ ToLower(SubSeq(s, p + RunOf(s, p + 1, SpaceSet) + 1,
                    p + RunOf(s, p + 1, SpaceSet) + Len(kw))) = kw
  /\ s[p + RunOf(s, p + 1, SpaceSet) + Len(kw) + 1] \in SpaceSet

HasKeyword(s, kws) == \E p \in 1..Len(s) : \E kw \in kws : KeywordAt(s, p, kw)

\* the lazy first group is the shortest one; what follows the keyword is
\* the text the last group is taken from (the caller trims both)
KeywordMatch(s, kws) ==
  Bind(CHOOSE p \in 1..Len(s) :
         /\ \E kw \in kws : KeywordAt(s, p, kw)
         /\ \A r \in 1..(p - 1) : \A kw \in kws : ~KeywordAt(s, r, kw),
       LAMBDA p :
    Bind(CHOOSE kw \in kws : KeywordAt(s, p, kw), LAMBDA kw :
      [col |-> SubSeq(s, 1, p),
       value |-> SubSeq(s, p + RunOf(s, p + 1, SpaceSet) + Len(kw) + 1, Len(s))]))

\* bestHeaderMatch(headers, raw)
bestHeaderMatch(hdrs, raw) ==
  Bind(norm(raw), LAMBDA r :
    Bind(FindHeader(hdrs, LAMBDA h : norm(h) = r), LAMBDA exact :
      IF Truthy(exact) THEN exact
      ELSE Bind(FindHeader(hdrs, LAMBDA h : Includes(norm(h), r)), LAMBDA contains :
             IF Truthy(contains) THEN contains ELSE NoColumn)))

\* the filter pushed for a matched clause, if any
FilterOf(hdrs, m, op) ==
  Bind(bestHeaderMatch(hdrs, Trim(m.col)), LAMBDA col :
    Bind(stripPunct(Trim(m.value)), LAMBDA value :
      IF Truthy(col) /\ value # <<>>
        THEN <<[column |-> col, op |-> op, value |-> value]>>
        ELSE <<>>))

\* parseFilters(q, headers)
parseFilters(q, hdrs) ==
  IF IndexOf(ToLower(q), <<"w", "h", "e", "r", "e", " ">>) = -1 THEN <<>>
  ELSE Bind(Trim(SliceFrom(q, IndexOf(ToLower(q), <<"w", "h", "e", "r", "e", " ">>) + 6)), LAMBDA clause :
         IF HasKeyword(clause, {<<"c", "o", "n", "t", "a", "i", "n", "s">>})
           THEN FilterOf(hdrs, KeywordMatch(clause, {<<"c", "o", "n", "t", "a", "i", "n", "s">>}), "contains")
         ELSE IF HasKeyword(clause, {<<"i", "s">>, <<"=">>})
           THEN FilterOf(hdrs, KeywordMatch(clause, {<<"i", "s">>, <<"=">>}), "eq")
         ELSE <<>>)

\* /\btop\s+(\d+)\b/i matches with "top" at position i: a word boundary,
\* "top", white space, a run of digits and a word boundary
TopAt(q, i) ==
  /\ i + 2 <= Len(q)
  /\ ToLower(SubSeq(q, i, i + 2)) = <<"t", "o", "p">>
  /\ i = 1 \/ ~IsWordChar(q[i - 1])
  /\ RunOf(q, i + 3, SpaceSet) >= 1
  /\ RunOf(q, i + 3 + RunOf(q, i + 3, SpaceSet), DigitSet) >= 1
  /\ \/ i + 2 + RunOf(q, i + 3, SpaceSet) + RunOf(q, i + 3 + RunOf(q, i + 3, SpaceSet), DigitSet) = Len(q)
     \/ ~IsWordChar(q[i + 3 + RunOf(q, i + 3, SpaceSet) + RunOf(q, i + 3 + RunOf(q, i + 3, SpaceSet), DigitSet)])

\* the digits captured by the leftmost match
TopDigits(q) ==
  Bind(CHOOSE i \in 1..Len(q) : TopAt(q, i) /\ \A r \in 1..(i - 1) : ~TopAt(q, r), LAMBDA i :
    Bind(i + 3 + RunOf(q, i + 3, SpaceSet), LAMBDA from :
      SubSeq(q, from, from + RunOf(q, from, DigitSet) - 1)))

\* detectTopN(q): 0 stands for null
detectTopN(q) ==
  IF \E i \in 1..Len(q) : TopAt(q, i) THEN DigitsToNat(TopDigits(q)) ELSE 0

HowMany == <<"h", "o", "w", " ", "m", "a", "n", "y">>

Blocked == {<<"r", "o", "w", "s">>, <<"r", "o", "w">>, <<"c", "o", "l", "u", "m", "n", "s">>, <<"c", "o", "l", "u", "m", "n">>, <<"r", "e", "c", "o", "r", "d", "s">>, <<"e", "n", "t", "r", "i", "e", "s">>, <<"d", "u", "p", "l", "i", "c", "a", "t", "e", "s">>}

\* where the name of /^how many\s+['"]?([a-z]+)['"]?\b/i starts in q
NameStart(q) ==
  Bind(Len(HowMany) + 1 + RunOf(q, Len(HowMany) + 1, SpaceSet), LAMBDA j :
    IF j <= Len(q) /\ q[j] \in {"'", Quote} THEN j + 1 ELSE j)

\* the expression matches: "how many", white space, an optional quote, a
\* run of letters that no digit or underscore continues
NameMatches(q) ==
  /\ Len(q) > Len(HowMany)
  /\ ToLower(SubSeq(q, 1, Len(HowMany))) = HowMany
  /\ RunOf(q, Len(HowMany) + 1, SpaceSet) >= 1
  /\ RunOf(q, NameStart(q), LetterSet) >= 1
  /\ \/ NameStart(q) + RunOf(q, NameStart(q), LetterSet) > Len(q)
     \/ ~IsWordChar(q[NameStart(q) + RunOf(q, NameStart(q), LetterSet)])

\* parseNameCount(q): NoColumn stands for null
parseNameCount(q) ==
  IF ~NameMatches(q) THEN NoColumn
  ELSE Bind(SubSeq(q, NameStart(q), NameStart(q) + RunOf(q, NameStart(q), LetterSet) - 1),
            LAMBDA candidate : IF ToLower(candidate) \in Blocked THEN NoColumn ELSE candidate)

\* the plan of a question; NoColumn and 0 stand for absent fields
Plan(intent, filters) ==
  [intent |-> intent, filters |-> filters, nameQuery |-> NoColumn, column |-> NoColumn,
   topN |-> 0, metricColumn |-> NoColumn, groupByColumn |-> NoColumn]

\* detectTopN(q) ?? 5
TopNOrDefault(q) == IF detectTopN(q) = 0 THEN 5 ELSE detectTopN(q)

TopKey(lower) ==
  IF Includes(lower, <<"c", "a", "t", "e", "g", "o", "r", "y">>) THEN "category"
  ELSE IF Includes(lower, <<"p", "r", "o", "d", "u", "c", "t">>) THEN "product"
  ELSE "customer"

GroupKey(lower) ==
  IF Includes(lower, <<"b", "y", " ", "c", "u", "s", "t", "o", "m", "e", "r">>) THEN "customer"
  ELSE IF Includes(lower, <<"b", "y", " ", "p", "r", "o", "d", "u", "c", "t">>) THEN "product"
  ELSE "category"

\* the plan chosen for the trimmed question q, its lower case and its filters
PlanOf(q, lower, filters, hdrs) ==
  IF Includes(lower, <<"w", "h", "y">>)
       /\ (Includes(lower, <<"r", "a", "w">>) \/ Includes(lower, <<"d", "i", "r", "t", "y">>) \/ Includes(lower, <<"u", "n", "c", "l", "e", "a", "n">>))
    THEN Plan("WHY_RAW", filters)
  ELSE IF Includes(lower, <<"q", "u", "a", "l", "i", "t", "y">>) \/ Includes(lower, <<"d", "i", "r", "t", "y">>)
            \/ Includes(lower, <<"i", "s", "s", "u", "e", "s">>) \/ Includes(lower, <<"p", "r", "o", "b", "l", "e", "m">>)
    THEN Plan("QUALITY_SUMMARY", filters)
  ELSE IF Includes(lower, <<"d", "u", "p", "l", "i", "c", "a", "t", "e">>)
    THEN (IF Includes(lower, <<"l", "i", "s", "t">>) \/ Includes(lower, <<"s", "h", "o", "w">>)
            THEN Plan("LIST_DUPLICATES", filters)
            ELSE Plan("COUNT_DUPLICATES", filters))
  ELSE IF Includes(lower, <<"h", "o", "w", " ", "m", "a", "n", "y">>)
            /\ (Includes(lower, <<"r", "o", "w", "s">>) \/ Includes(lower, <<"r", "e", "c", "o", "r", "d", "s">>) \/ Includes(lower, <<"e", "n", "t", "r", "i", "e", "s">>))
    THEN Plan("COUNT_ROWS", filters)
  ELSE IF parseNameCount(lower) # NoColumn
    THEN [Plan("COUNT_NAME", filters) EXCEPT !.nameQuery = parseNameCount(lower)]
  ELSE IF Includes(lower, <<"t", "o", "p">>)
            /\ (Includes(lower, <<"c", "u", "s", "t", "o", "m", "e", "r">>) \/ Includes(lower, <<"p", "r", "o", "d", "u", "c", "t">>) \/ Includes(lower, <<"c", "a", "t", "e", "g", "o", "r", "y">>))
    THEN [Plan("TOP_VALUES", filters) EXCEPT !.column = resolveColumn(hdrs, TopKey(lower)),
                                             !.topN = TopNOrDefault(q)]
  ELSE IF (Includes(lower, <<"b", "y", " ", "c", "a", "t", "e", "g", "o", "r", "y">>) \/ Includes(lower, <<"b", "y", " ", "p", "r", "o", "d", "u", "c", "t">>) \/ Includes(lower, <<"b", "y", " ", "c", "u", "s", "t", "o", "m", "e", "r">>))
            /\ (Includes(lower, <<"s", "a", "l", "e", "s">>) \/ Includes(lower, <<"r", "e", "v", "e", "n", "u", "e">>)
                  \/ Includes(lower, <<"a", "m", "o", "u", "n", "t">>) \/ Includes(lower, <<"t", "o", "t", "a", "l">>))
    THEN [Plan("GROUP_SUM", filters) EXCEPT !.metricColumn = resolveColumn(hdrs, "revenue"),
                                            !.groupByColumn = resolveColumn(hdrs, GroupKey(lower)),
                                            !.topN = TopNOrDefault(q)]
  ELSE IF Includes(lower, <<"t", "o", "t", "a", "l">>)
            /\ (Includes(lower, <<"r", "e", "v", "e", "n", "u", "e">>) \/ Includes(lower, <<"s", "a", "l", "e", "s">>) \/ Includes(lower, <<"a", "m", "o", "u", "n", "t">>))
    THEN [Plan("SUM", filters) EXCEPT !.metricColumn = resolveColumn(hdrs, "revenue")]
  ELSE Plan("UNKNOWN", filters)

\* parseQuestionToPlan(question, headers)
\* parseQuestionToPlan with the SUM rule tried before all others
parseQuestionToPlanSumFirst(question, hdrs) ==
  Bind(Trim(question), LAMBDA q :
    IF Includes(ToLower(q), <<"t", "o", "t", "a", "l">>)
         /\ (Includes(ToLower(q), <<"r", "e", "v", "e", "n", "u", "e">>) \/ Includes(ToLower(q), <<"s", "a", "l", "e", "s">>) \/ Includes(ToLower(q), <<"a", "m", "o", "u", "n", "t">>))
      THEN [Plan("SUM", parseFilters(q, hdrs)) EXCEPT !.metricColumn = resolveColumn(hdrs, "revenue")]
      ELSE PlanOf(q, ToLower(q), parseFilters(q, hdrs), hdrs))

parseQuestionToPlan(question, hdrs) ==
  Bind(Trim(question), LAMBDA q : PlanOf(q, ToLower(q), parseFilters(q, hdrs), hdrs))

(***************************************************************************)
(* Plan execution (salesAI.ts).                                            *)
(***************************************************************************)
\* the cell text a filter compares: stripPunct(String(row[col] ?? "")).toLowerCase()
FilterText(v) == ToLower(stripPunct(StrOrEmpty(v)))

\* applyFilters(rows, filters)
applyFilters(rs, hdrs, filters) ==
  IF filters = <<>> THEN rs
  ELSE SelectSeq(rs, LAMBDA row :
         \A k \in 1..Len(filters) :
           /\ filters[k].op = "eq" =>
                FilterText(Cell(row, hdrs, filters[k].column)) = ToLower(stripPunct(filters[k].value))
           /\ filters[k].op = "contains" =>
                Includes(FilterText(Cell(row, hdrs, filters[k].column)), ToLower(stripPunct(filters[k].value))))

RECURSIVE SumSeq(_)
SumSeq(ns) == IF ns = <<>> THEN 0 ELSE Head(ns) + SumSeq(Tail(ns))

\* the keys of a Map in insertion order, with the number of rows of each
CountByKey(keys) ==
  Bind(Uniq(keys, {}), LAMBDA distinct :
    [k \in 1..Len(distinct) |->
       [key |-> distinct[k], n |-> Cardinality({i \in 1..Len(keys) : keys[i] = distinct[k]})]])

\* entries.sort((a, b) => b.n - a.n): a stable sort, largest n first
SortDesc(entries) ==
  [p \in 1..Len(entries) |->
     entries[CHOOSE i \in 1..Len(entries) :
               p = 1 + Cardinality({j \in 1..Len(entries) :
                                      \/ entries[j].n > entries[i].n
                                      \/ entries[j].n = entries[i].n /\ j < i})]]

\* a.slice(0, n)
Take(a, n) == SubSeq(a, 1, IF n < Len(a) THEN n ELSE Len(a))

\* findDuplicateStats(rows, headers)
findDuplicateStats(rs, hdrs) ==
  Bind(CountByKey([i \in 1..Len(rs) |-> buildRowSignature(rs[i], hdrs)]), LAMBDA counts :
    Bind(SelectSeq(counts, LAMBDA e : e.n > 1), LAMBDA dupSigs :
      [duplicateRowCount |-> SumSeq([k \in 1..Len(dupSigs) |-> dupSigs[k].n - 1]),
       dupSigs |-> dupSigs]))

\* the issue counts of dataQualitySummary(rows, headers)
QualityCounts(rs, hdrs, numCandidates, dateCandidates, len) ==
  Bind([k \in 1..Len(rs) |-> [i \in 1..Len(hdrs) |-> Cell(rs[k], hdrs, hdrs[i])]], LAMBDA v :
    [totalCells |-> Len(rs) * Len(hdrs),
     missing |-> Cardinality({c \in (1..Len(rs)) \X (1..Len(hdrs)) :
                                Trim(StrOrEmpty(v[c[1]][c[2]])) = <<>>}),
     invalidNumbers |-> Cardinality({c \in (1..Len(rs)) \X (1..Len(hdrs)) :
                                       /\ hdrs[c[2]] \in numCandidates
                                       /\ Trim(StrOrEmpty(v[c[1]][c[2]])) # <<>>
                                       /\ toNumberSafe(v[c[1]][c[2]]).nan}),
     invalidDates |-> Cardinality({c \in (1..Len(rs)) \X (1..Len(hdrs)) :
                                     /\ hdrs[c[2]] \in dateCandidates
                                     /\ Trim(StrOrEmpty(v[c[1]][c[2]])) # <<>>
                                     /\ ~toDateSafeOk(v[c[1]][c[2]], len)}),
     duplicateRowCount |-> findDuplicateStats(rs, hdrs).duplicateRowCount])

\* totalCells === 0 ? 100 : Math.max(0, 100 - (issueCount / totalCells) * 100),
\* as the fraction num / den
QualityScore(totalCells, issueCount) ==
  IF totalCells = 0 THEN [num |-> 100, den |-> 1]
  ELSE [num |-> IF totalCells - issueCount < 0 THEN 0 ELSE 100 * (totalCells - issueCount),
        den |-> totalCells]

\* dataQualitySummary(rows, headers)
dataQualitySummary(rs, hdrs, len) ==
  Bind(QualityCounts(rs, hdrs,
                     {resolveColumn(hdrs, "revenue"), resolveColumn(hdrs, "quantity")} \ {NoColumn},
                     {resolveColumn(hdrs, "date")} \ {NoColumn}, len),
       LAMBDA c :
    [totalCells |-> c.totalCells, missing |-> c.missing, invalidNumbers |-> c.invalidNumbers,
     invalidDates |-> c.invalidDates, duplicateRowCount |-> c.duplicateRowCount,
     qualityScore |-> QualityScore(c.totalCells,
                                   c.missing + c.invalidNumbers + c.invalidDates + c.duplicateRowCount)])

\* countNameInColumn counting the cells that contain the name anywhere
countNameInColumnSubstring(rs, hdrs, col, name) ==
  Bind(ToLower(stripPunct(name)), LAMBDA target :
    Cardinality({i \in 1..Len(rs) : Includes(FilterText(Cell(rs[i], hdrs, col)), target)}))

\* countNameInColumn(rows, col, name)
countNameInColumn(rs, hdrs, col, name) ==
  Bind(ToLower(stripPunct(name)), LAMBDA target :
    Cardinality({i \in 1..Len(rs) :
      \E cell \in {FilterText(Cell(rs[i], hdrs, col))} :
        /\ cell # <<>>
        /\ \E tokens \in {Split(cell, " ")} : \E k \in 1..Len(tokens) : tokens[k] = target}))

\* topValues(rows, col, topN)
topValues(rs, hdrs, col, topN) ==
  Bind(SelectSeq([i \in 1..Len(rs) |-> ToLower(Trim(stripPunct(StrOrEmpty(Cell(rs[i], hdrs, col)))))],
                 LAMBDA v : v # <<>>),
       LAMBDA keys :
    Bind(Take(SortDesc(CountByKey(keys)), topN), LAMBDA tops :
      [k \in 1..Len(tops) |-> [value |-> tops[k].key, count |-> tops[k].n]]))

\* sumColumn(rows, col)
sumColumn(rs, hdrs, col) ==
  Bind([i \in 1..Len(rs) |-> toNumberSafe(Cell(rs[i], hdrs, col))], LAMBDA ns :
    [sum |-> SumSeq([i \in 1..Len(ns) |-> IF ns[i].nan THEN 0 ELSE ns[i].n]),
     used |-> Cardinality({i \in 1..Len(ns) : ~ns[i].nan}),
     skipped |-> Cardinality({i \in 1..Len(ns) : ns[i].nan})])

\* groupSum(rows, groupCol, metricCol, topN)
groupSum(rs, hdrs, groupCol, metricCol, topN) ==
  Bind(SelectSeq([i \in 1..Len(rs) |->
                    [g |-> Trim(stripPunct(StrOrEmpty(Cell(rs[i], hdrs, groupCol)))),
                     m |-> toNumberSafe(Cell(rs[i], hdrs, metricCol))]],
                 LAMBDA e : e.g # <<>>),
       LAMBDA grouped :
    Bind(SelectSeq(grouped, LAMBDA e : ~e.m.nan), LAMBDA valid :
      Bind(Uniq([i \in 1..Len(valid) |-> ToLower(valid[i].g)], {}), LAMBDA keys :
        [rows |-> Bind(Take(SortDesc([k \in 1..Len(keys) |->
                                        [key |-> keys[k],
                                         n |-> SumSeq([i \in 1..Len(valid) |->
                                                         IF ToLower(valid[i].g) = keys[k]
                                                           THEN valid[i].m.n ELSE 0])]]),
                            topN),
                       LAMBDA top : [k \in 1..Len(top) |-> [group |-> top[k].key, value |-> top[k].n]]),
         skipped |-> Len(grouped) - Len(valid)])))

\* the first entries of how[]: the filters applied and the rows considered
HowStart(filters, considered, outOf) ==
  <<IF filters # <<>> THEN [text |-> "Filters applied", filters |-> filters]
                      ELSE [text |-> "No filters applied."],
    [text |-> "Rows considered", considered |-> considered, outOf |-> outOf]>>

\* one more entry of how[]
HowNote(text) == [text |-> text]

\* an Answer; result holds the values its text is rendered from
Answer(reply, confidence, how, result) ==
  [reply |-> reply, confidence |-> confidence, how |-> how, result |-> result]

\* the switch of answerSalesQuestion over plan.intent
AnswerOf(plan, filteredRows, hdrs, how, len) ==
  CASE plan.intent = "COUNT_ROWS" ->
         Answer("row count", "high", how, [rows |-> Len(filteredRows)])
    [] plan.intent = "COUNT_NAME" ->
         Bind(resolveColumn(hdrs, "customer"), LAMBDA customerCol :
           IF ~Truthy(customerCol)
             THEN Answer("no customer column", "medium",
                         Append(how, HowNote("Customer column not found via synonyms.")), NoValue)
             ELSE Answer("name count", "high",
                         Append(how, [text |-> "Counted token matches in column",
                                      column |-> customerCol]),
                         [count |-> countNameInColumn(filteredRows, hdrs, customerCol, plan.nameQuery),
                          column |-> customerCol, name |-> plan.nameQuery]))
    [] plan.intent = "COUNT_DUPLICATES" ->
         Answer("duplicate count", "high",
                Append(how, HowNote("Duplicates detected by matching entire-row signatures across all columns.")),
                [duplicateRowCount |-> findDuplicateStats(filteredRows, hdrs).duplicateRowCount])
    [] plan.intent = "LIST_DUPLICATES" ->
         Bind(findDuplicateStats(filteredRows, hdrs).dupSigs, LAMBDA dupSigs :
           IF dupSigs = <<>>
             THEN Answer("no duplicates", "high", how, NoValue)
             ELSE Answer("duplicate preview", "medium",
                         Append(how, HowNote("Preview shows a subset to keep the chat readable.")),
                         [preview |-> Take(dupSigs, 3)]))
    [] plan.intent = "QUALITY_SUMMARY" ->
         Answer("quality summary", "high",
                Append(how, HowNote("Score is based on issue density across all cells (missing + invalid + duplicates).")),
                dataQualitySummary(filteredRows, hdrs, len))
    [] plan.intent = "WHY_RAW" -> Answer("why raw", "high", how, NoValue)
    [] plan.intent = "TOP_VALUES" ->
         IF ~Truthy(plan.column) THEN Answer("no top column", "medium", how, NoValue)
         ELSE Bind(topValues(filteredRows, hdrs, plan.column, plan.topN), LAMBDA tops :
                IF tops = <<>>
                  THEN Answer("no values", "medium", how, [column |-> plan.column])
                  ELSE Answer("top values", "high",
                              Append(how, [text |-> "Computed frequency counts for column",
                                           column |-> plan.column]),
                              [topN |-> plan.topN, column |-> plan.column, tops |-> tops]))
    [] plan.intent = "SUM" ->
         IF ~Truthy(plan.metricColumn) THEN Answer("no metric column", "medium", how, NoValue)
         ELSE Answer("sum", "high",
                     Append(how, [text |-> "Summed numeric values from column", column |-> plan.metricColumn]),
                     [metric |-> plan.metricColumn] @@ sumColumn(filteredRows, hdrs, plan.metricColumn))
    [] plan.intent = "GROUP_SUM" ->
         IF ~Truthy(plan.groupByColumn) \/ ~Truthy(plan.metricColumn)
           THEN Answer("no group columns", "medium",
                       Append(how, [text |-> "groupBy, metric", groupBy |-> plan.groupByColumn,
                                    metric |-> plan.metricColumn]), NoValue)
           ELSE Bind(groupSum(filteredRows, hdrs, plan.groupByColumn, plan.metricColumn, plan.topN),
                     LAMBDA result :
                  IF result.rows = <<>>
                    THEN Answer("no groups", "medium", how, [groupBy |-> plan.groupByColumn])
                    ELSE Answer("group sum", "high",
                                Append(how, [text |-> "Grouped and summed",
                                             groupBy |-> plan.groupByColumn,
                                             metric |-> plan.metricColumn]),
                                [topN |-> plan.topN] @@ result))
    [] OTHER -> Answer("unknown", "low", how, NoValue)

\* answerSalesQuestion({ question, rows, headers })
answerSalesQuestion(a, len) ==
  IF a.rows = <<>> \/ a.headers = <<>> THEN Answer("no rows", "low", <<>>, NoValue)
  ELSE Bind(parseQuestionToPlan(a.question, a.headers), LAMBDA plan :
         Bind(applyFilters(a.rows, a.headers, plan.filters), LAMBDA filteredRows :
           AnswerOf(plan, filteredRows, a.headers,
                    HowStart(plan.filters, Len(filteredRows), Len(a.rows)), len)))

(***************************************************************************)
(* generateQualityReport (dataQuality): Math.round over exact fractions.   *)
(***************************************************************************)
\* a number of the report: NaN or the integer n
NaN == [nan |-> TRUE, n |-> 0]

Finite(n) == [nan |-> FALSE, n |-> n]

\* Math.round((a / b) * 100); 0 / 0 is NaN
RoundPct(a, b) == IF b = 0 THEN NaN ELSE Finite((200 * a + b) \div (2 * b))

\* typeof val of the non-blank cells of a column
TypesOf(data, i) == {data[k][i].t : k \in {k \in 1..Len(data) : ~IsBlankCell(data[k][i])}}

\* validCells: all rows of a column of one type, Math.round(rows * 0.7) otherwise
ValidCells(data, hdrs) ==
  SumSeq([i \in 1..Len(hdrs) |->
            IF Cardinality(TypesOf(data, i)) <= 1 THEN Len(data) ELSE (7 * Len(data) + 5) \div 10])

\* Math.round(completeness * 0.4 + uniqueness * 0.3 + validity * 0.2 + 100 * 0.1)
OverallScore(completeness, uniqueness, validity) ==
  IF completeness.nan \/ uniqueness.nan \/ validity.nan THEN NaN
  ELSE Finite((4 * completeness.n + 3 * uniqueness.n + 2 * validity.n + 105) \div 10)

\* x < limit, false for NaN
Below(x, limit) == ~x.nan /\ x.n < limit

\* generateQualityReport(data); hdrs is Object.keys(data[0])
generateQualityReport(data, hdrs) ==
  IF data = <<>>
    THEN [overallScore |-> Finite(0), completeness |-> Finite(0), uniqueness |-> Finite(0),
          validity |-> Finite(0), consistency |-> 100, accuracy |-> 100, timeliness |-> 100,
          issues |-> <<"No data to analyze">>]
  ELSE Bind([totalCells |-> Len(data) * Len(hdrs),
             nullCount |-> Cardinality({c \in (1..Len(data)) \X (1..Len(hdrs)) :
                                          IsBlankCell(data[c[1]][c[2]])}),
             uniqueRows |-> Cardinality({JsonStringify(hdrs, data[k]) : k \in 1..Len(data)})],
            LAMBDA n :
         Bind([completeness |-> RoundPct(n.totalCells - n.nullCount, n.totalCells),
               uniqueness |-> RoundPct(n.uniqueRows, Len(data)),
               validity |-> RoundPct(ValidCells(data, hdrs), n.totalCells)],
              LAMBDA s :
           [overallScore |-> OverallScore(s.completeness, s.uniqueness, s.validity),
            completeness |-> s.completeness, uniqueness |-> s.uniqueness, validity |-> s.validity,
            consistency |-> 100, accuracy |-> 95, timeliness |-> 90,
            issues |-> (IF Below(s.completeness, 80) THEN <<"Low completeness">> ELSE <<>>)
                       \o (IF Below(s.uniqueness, 95) THEN <<"duplicate rows detected">> ELSE <<>>)
                       \o (IF Below(s.validity, 85)
                             THEN <<"Some columns have inconsistent data types">> ELSE <<>>)]))

(***************************************************************************)
(* Visual query builder (queryBuilder.ts).  A DataRow is kept as its       *)
(* entries [k, v] in insertion order; a number that is not whole carries   *)
(* its two decimals in f.                                                  *)
(***************************************************************************)
Undefined == [t |-> "undefined", s |-> <<>>, n |-> 0]

\* the number h / 100
Decimal(h) ==
  IF h % 100 = 0 THEN Num(h \div 100)
  ELSE [t |-> "num", s |-> <<>>, n |-> h \div 100, f |-> h % 100]

\* a number cell in hundredths
Hundredths(v) == IF "f" \in DOMAIN v THEN 100 * v.n + v.f ELSE 100 * v.n

\* row[col]
Field(row, col) ==
  IF \E i \in 1..Len(row) : row[i].k = col
    THEN row[CHOOSE i \in 1..Len(row) : row[i].k = col].v
    ELSE Undefined

\* row[col] = value
SetField(row, col, value) ==
  IF \E i \in 1..Len(row) : row[i].k = col
    THEN [i \in 1..Len(row) |-> IF row[i].k = col THEN [k |-> col, v |-> value] ELSE row[i]]
    ELSE Append(row, [k |-> col, v |-> value])

\* String(value)
StringOf(v) ==
  CASE v.t = "str" -> v.s
    [] v.t = "num" ->
         IF "f" \in DOMAIN v
           THEN NumToStr(v.n) \o <<".">> \o <<Digits[(v.f \div 10) + 1]>>
                \o (IF v.f % 10 = 0 THEN <<>> ELSE <<Digits[(v.f % 10) + 1]>>)
           ELSE NumToStr(v.n)
    [] v.t = "null" -> <<"n", "u", "l", "l">>
    [] OTHER -> <<"u", "n", "d", "e", "f", "i", "n", "e", "d">>

\* Number(value), in hundredths
NumberOf(v) ==
  IF v.t = "undefined" THEN NaN
  ELSE IF v.t = "num" THEN Finite(Hundredths(v))
  ELSE Bind(CellToNumber(v), LAMBDA x : IF x.nan THEN NaN ELSE Finite(100 * x.n))

\* a === b
StrictEquals(a, b) ==
  /\ a.t = b.t
  /\ CASE a.t = "str" -> a.s = b.s
       [] a.t = "num" -> Hundredths(a) = Hundredths(b)
       [] OTHER -> TRUE

UpperChar(c) ==
  IF \E i \in 1..26 : LowerLetters[i] = c
    THEN UpperLetters[CHOOSE i \in 1..26 : LowerLetters[i] = c]
    ELSE c

\* String.prototype.toUpperCase
ToUpper(s) == [i \in 1..Len(s) |-> UpperChar(s[i])]

\* value === null || value === undefined || value === ''
IsEmptyValue(value) ==
  value.t \in {"null", "undefined"} \/ (value.t = "str" /\ value.s = <<>>)

\* the callback of filters.every in applyFilters: one filter against one row.
\* filter.value is a cell, [min, max] for between and a list of strings for in.
FilterHolds(row, filter) ==
  Bind(Field(row, filter.column), LAMBDA value :
    CASE filter.operator = "equals" -> StrictEquals(value, filter.value)
      [] filter.operator = "contains" ->
           Includes(ToLower(StringOf(value)), ToLower(StringOf(filter.value)))
      [] filter.operator = "greater" ->
           /\ ~NumberOf(value).nan /\ ~NumberOf(filter.value).nan
           /\ NumberOf(value).n > NumberOf(filter.value).n
      [] filter.operator = "less" ->
           /\ ~NumberOf(value).nan /\ ~NumberOf(filter.value).nan
           /\ NumberOf(value).n < NumberOf(filter.value).n
      [] filter.operator = "between" ->
           /\ ~NumberOf(value).nan
           /\ NumberOf(value).n >= 100 * filter.value.min
           /\ NumberOf(value).n <= 100 * filter.value.max
      [] filter.operator = "in" ->
           \E i \in 1..Len(filter.value.items) : filter.value.items[i] = StringOf(value)
      [] filter.operator = "isEmpty" -> IsEmptyValue(value)
      [] filter.operator = "isNotEmpty" -> ~IsEmptyValue(value)
      [] OTHER -> TRUE)

\* applyFilters(data, filters) of the query builder
applyQueryFilters(rs, fs) ==
  SelectSeq(rs, LAMBDA row : \A i \in 1..Len(fs) : FilterHolds(row, fs[i]))

\* `${column}_${type}`
AggregationKey(aggregation) == aggregation.column \o <<"_">> \o aggregation.type

MinOf(S) == CHOOSE x \in S : \A y \in S : x <= y

MaxOf(S) == CHOOSE x \in S : \A y \in S : x >= y

\* one aggregation over the numbers of a group, given in hundredths
Aggregate(values, type) ==
  CASE type = <<"s", "u", "m">> -> Decimal(SumSeq(values))
    [] type = <<"a", "v", "g">> ->
         IF Len(values) > 0
           THEN Decimal((2 * SumSeq(values) + Len(values)) \div (2 * Len(values)))
           ELSE Num(0)
    [] type = <<"c", "o", "u", "n", "t">> -> Num(Len(values))
    [] type = <<"m", "i", "n">> ->
         IF Len(values) > 0 THEN Decimal(MinOf({values[i] : i \in 1..Len(values)})) ELSE Null
    [] type = <<"m", "a", "x">> ->
         IF Len(values) > 0 THEN Decimal(MaxOf({values[i] : i \in 1..Len(values)})) ELSE Null

RECURSIVE AggregatedRow(_, _, _)
\* the row of one group: the aggregations are written onto it in order
AggregatedRow(groupData, aggregatedRow, aggregations) ==
  IF aggregations = <<>> THEN aggregatedRow
  ELSE Bind(SelectSeq([i \in 1..Len(groupData) |-> Field(groupData[i], Head(aggregations).column)],
                      LAMBDA val : val.t = "num"), LAMBDA values :
         AggregatedRow(groupData,
                       SetField(aggregatedRow, AggregationKey(Head(aggregations)),
                                Aggregate([i \in 1..Len(values) |-> Hundredths(values[i])],
                                          Head(aggregations).type)),
                       Tail(aggregations)))

\* applyGroupBy(data, config): groups in order of first appearance
applyGroupBy(rs, groupBy) ==
  Bind([i \in 1..Len(rs) |-> StringOf(Field(rs[i], groupBy.column))], LAMBDA keyOf :
    Bind(Uniq(keyOf, {}), LAMBDA groups :
      [g \in 1..Len(groups) |->
         AggregatedRow(SelectSeq(rs, LAMBDA row : StringOf(Field(row, groupBy.column)) = groups[g]),
                       <<[k |-> groupBy.column, v |-> Str(groups[g])]>>,
                       groupBy.aggregations)]))

\* collation order of the characters that occur in sort keys
LocaleOrder == <<"_", "-", ".">> \o Digits \o LowerLetters

LocaleRank(c) == CHOOSE i \in 1..Len(LocaleOrder) : LocaleOrder[i] = c

RECURSIVE localeCompare(_, _)
\* a.localeCompare(b): negative, zero or positive
localeCompare(a, b) ==
  IF a = <<>> THEN (IF b = <<>> THEN 0 ELSE -1)
  ELSE IF b = <<>> THEN 1
  ELSE IF Head(a) # Head(b)
    THEN (IF LocaleRank(Head(a)) < LocaleRank(Head(b)) THEN -1 ELSE 1)
  ELSE localeCompare(Tail(a), Tail(b))

\* the comparator of applyOrderBy
Comparison(a, b, orderBy) ==
  Bind(<<Field(a, orderBy.column), Field(b, orderBy.column)>>, LAMBDA val :
    Bind(IF val[1].t = "num" /\ val[2].t = "num"
           THEN Hundredths(val[1]) - Hundredths(val[2])
           ELSE localeCompare(StringOf(val[1]), StringOf(val[2])), LAMBDA comparison :
      IF orderBy.direction = <<"a", "s", "c">> THEN comparison ELSE -comparison))

\* applyOrderBy(data, config): [...data].sort(comparator), a stable sort.  The
\* comparator is a consistent ordering on the values at hand.
applyOrderBy(rs, orderBy) ==
  Bind([i \in 1..Len(rs) |-> [j \in 1..Len(rs) |-> Comparison(rs[j], rs[i], orderBy)]], LAMBDA cmp :
    [p \in 1..Len(rs) |->
       rs[CHOOSE i \in 1..Len(rs) :
            p = 1 + Cardinality({j \in 1..Len(rs) :
                                   cmp[i][j] < 0 \/ (cmp[i][j] = 0 /\ j < i)})]])

RECURSIVE SelectedRow(_, _, _)
\* columns.forEach((col) => selectedRow[col] = row[col])
SelectedRow(row, selectedRow, columns) ==
  IF columns = <<>> THEN selectedRow
  ELSE SelectedRow(row, SetField(selectedRow, Head(columns), Field(row, Head(columns))),
                   Tail(columns))

\* results.map(row => selectedRow)
SelectColumns(rs, columns) == [i \in 1..Len(rs) |-> SelectedRow(rs[i], <<>>, columns)]

\* a.slice(0, n)
Slice(a, n) == IF n >= 0 THEN Take(a, n) ELSE SubSeq(a, 1, Len(a) + n)

\* generateFilterSQL(filter)
generateFilterSQL(filter) ==
  Bind(filter.column, LAMBDA col :
    CASE filter.operator = "equals" -> col \o <<" ", "=", " ", "'">> \o StringOf(filter.value) \o <<"'">>
      [] filter.operator = "contains" -> col \o <<" ", "L", "I", "K", "E", " ", "'", "%">> \o StringOf(filter.value) \o <<"%", "'">>
      [] filter.operator = "greater" -> col \o <<" ", ">", " ">> \o StringOf(filter.value)
      [] filter.operator = "less" -> col \o <<" ", "<", " ">> \o StringOf(filter.value)
      [] filter.operator = "between" ->
           col \o <<" ", "B", "E", "T", "W", "E", "E", "N", " ">> \o NumToStr(filter.value.min) \o <<" ", "A", "N", "D", " ">> \o NumToStr(filter.value.max)
      [] filter.operator = "in" ->
           col \o <<" ", "I", "N", " ", "(">>
           \o Join([i \in 1..Len(filter.value.items) |-> <<"'">> \o filter.value.items[i] \o <<"'">>],
                   <<",", " ">>)
           \o <<")">>
      [] filter.operator = "isEmpty" -> col \o <<" ", "I", "S", " ", "N", "U", "L", "L", " ", "O", "R", " ">> \o col \o <<" ", "=", " ", "'", "'">>
      [] filter.operator = "isNotEmpty" -> col \o <<" ", "I", "S", " ", "N", "O", "T", " ", "N", "U", "L", "L", " ", "A", "N", "D", " ">> \o col \o <<" ", "!", "=", " ", "'", "'">>
      [] OTHER -> <<>>)

\* config.filters.map((f) => generateFilterSQL(f)).join(' AND ')
WhereClauses(fs) == Join([i \in 1..Len(fs) |-> generateFilterSQL(fs[i])], <<" ", "A", "N", "D", " ">>)

\* generateSQL(config)
generateSQL(cfg) ==
  (IF cfg.groupBy # NoValue
     THEN <<"S", "E", "L", "E", "C", "T", " ">> \o cfg.groupBy.column \o <<",", " ">>
          \o Join([i \in 1..Len(cfg.groupBy.aggregations) |->
                     ToUpper(cfg.groupBy.aggregations[i].type) \o <<"(">>
                     \o cfg.groupBy.aggregations[i].column \o <<")">>], <<",", " ">>)
          \o <<" ", "F", "R", "O", "M", " ", "d", "a", "t", "a">>
          \o (IF cfg.filters # <<>> THEN <<" ", "W", "H", "E", "R", "E", " ">> \o WhereClauses(cfg.filters) ELSE <<>>)
          \o <<" ", "G", "R", "O", "U", "P", " ", "B", "Y", " ">> \o cfg.groupBy.column
     ELSE <<"S", "E", "L", "E", "C", "T", " ">>
          \o (IF cfg.select # <<>> THEN Join(cfg.select, <<",", " ">>) ELSE <<"*">>)
          \o <<" ", "F", "R", "O", "M", " ", "d", "a", "t", "a">>
          \o (IF cfg.filters # <<>> THEN <<" ", "W", "H", "E", "R", "E", " ">> \o WhereClauses(cfg.filters) ELSE <<>>))
  \o (IF cfg.orderBy # NoValue
        THEN <<" ", "O", "R", "D", "E", "R", " ", "B", "Y", " ">> \o cfg.orderBy.column \o <<" ">> \o ToUpper(cfg.orderBy.direction)
        ELSE <<>>)
  \o (IF cfg.limit # 0 THEN <<" ", "L", "I", "M", "I", "T", " ">> \o NumToStr(cfg.limit) ELSE <<>>)

\* the result of executeQuery once each stage has had its turn
ExecutionResult(results, cfg) ==
  [results |-> results, rowCount |-> Len(results), sql |-> generateSQL(cfg)]

\* executeQuery with the ordering done before the column selection
executeQueryOrderFirst(rs, cfg) ==
  Bind(IF cfg.filters # <<>> THEN applyQueryFilters(rs, cfg.filters) ELSE rs, LAMBDA filtered :
    Bind(IF cfg.groupBy # NoValue THEN applyGroupBy(filtered, cfg.groupBy) ELSE filtered, LAMBDA grouped :
      Bind(IF cfg.orderBy # NoValue THEN applyOrderBy(grouped, cfg.orderBy) ELSE grouped, LAMBDA ordered :
        Bind(IF cfg.select # <<>> THEN SelectColumns(ordered, cfg.select) ELSE ordered, LAMBDA selected :
          ExecutionResult(IF cfg.limit # 0 THEN Slice(selected, cfg.limit) ELSE selected, cfg)))))

\* executeQuery(data, config); a config without select, filters, groupBy,
\* orderBy or limit has <<>>, <<>>, NoValue, NoValue or 0 there (as [] and 0
\* it takes the same branches)
executeQuery(rs, cfg) ==
  Bind(IF cfg.filters # <<>> THEN applyQueryFilters(rs, cfg.filters) ELSE rs, LAMBDA filtered :
    Bind(IF cfg.groupBy # NoValue THEN applyGroupBy(filtered, cfg.groupBy) ELSE filtered, LAMBDA grouped :
      Bind(IF cfg.select # <<>> THEN SelectColumns(grouped, cfg.select) ELSE grouped, LAMBDA selected :
        Bind(IF cfg.orderBy # NoValue THEN applyOrderBy(selected, cfg.orderBy) ELSE selected, LAMBDA ordered :
          ExecutionResult(IF cfg.limit # 0 THEN Slice(ordered, cfg.limit) ELSE ordered, cfg)))))

(***************************************************************************)
(* The files a user can pick: a header line and up to MaxRows data lines,  *)
(* each line one raw field per column.                                     *)
(***************************************************************************)
HeaderLine == <<"n", ",", "s">>

RawFields1 == {<<>>, <<"0">>, <<"|">>}

RawFields2 == {<<>>, <<"|">>,
               <<Quote, "a", Quote, Quote, "b", Quote>>,
               <<Quote, "x", ",", "y", Quote>>}

DataLines == {f1 \o <<Comma>> \o f2 : f1 \in RawFields1, f2 \in RawFields2}

RECURSIVE SeqsUpTo(_, _)
SeqsUpTo(S, n) ==
  IF n = 0 THEN {<<>>}
  ELSE SeqsUpTo(S, n - 1) \cup {Append(q, x) : q \in {r \in SeqsUpTo(S, n - 1) : Len(r) = n - 1}, x \in S}

Files == {Join(<<HeaderLine>> \o ls, <<Newline>>) : ls \in SeqsUpTo(DataLines, MaxRows)}

(***************************************************************************)
(* The statistics library (src/utils/statistics.ts).  A JavaScript number  *)
(* is a record: k is "num" for a finite value, kept in v as a count of     *)
(* ten-thousandths, or "nan", "inf", "ninf"; "undefined" is the value of a *)
(* missing property.  Arithmetic follows IEEE 754 on the special values;   *)
(* finite results are kept to four decimals and no sign is kept for zero.  *)
(***************************************************************************)
Scale == 10000

Fin(v) == [k |-> "num", v |-> v]

Whole(n) == Fin(n * Scale)

FNaN == [k |-> "nan", v |-> 0]

PosInf == [k |-> "inf", v |-> 0]

NegInf == [k |-> "ninf", v |-> 0]

NoNumber == [k |-> "undefined", v |-> 0]

IsFinite(x) == x.k = "num"

\* ToNumber: undefined converts to NaN
ToNumber(x) == IF x.k = "undefined" THEN FNaN ELSE x

\* -1, 0 or 1; the infinities carry their sign
Sign(x) ==
  CASE x.k = "inf" -> 1
    [] x.k = "ninf" -> -1
    [] OTHER -> IF x.v > 0 THEN 1 ELSE IF x.v < 0 THEN -1 ELSE 0

Signed(s) == IF s > 0 THEN PosInf ELSE NegInf

AbsInt(n) == IF n < 0 THEN -n ELSE n

\* a / b rounded to the nearest integer, for b # 0
NearestDiv(a, b) == a \div b + (IF 2 * (a % b) >= b THEN 1 ELSE 0)

RoundDiv(a, b) ==
  IF (a >= 0) = (b > 0) THEN NearestDiv(AbsInt(a), AbsInt(b)) ELSE -NearestDiv(AbsInt(a), AbsInt(b))

FNeg(x) ==
  CASE x.k = "num" -> Fin(-x.v)
    [] x.k = "inf" -> NegInf
    [] x.k = "ninf" -> PosInf
    [] OTHER -> FNaN

\* a + b
FAdd(a0, b0) ==
  LET a == ToNumber(a0)
      b == ToNumber(b0)
  IN  CASE a.k = "nan" \/ b.k = "nan" -> FNaN
        [] a.k = "num" /\ b.k = "num" -> Fin(a.v + b.v)
        [] a.k = "num" -> b
        [] b.k = "num" -> a
        [] OTHER -> IF a.k = b.k THEN a ELSE FNaN

\* a - b
FSub(a, b) == FAdd(a, FNeg(ToNumber(b)))

\* a * b; 0 * Infinity is NaN
FMul(a0, b0) ==
  LET a == ToNumber(a0)
      b == ToNumber(b0)
  IN  CASE a.k = "nan" \/ b.k = "nan" -> FNaN
        [] a.k = "num" /\ b.k = "num" ->
             IF b.v % Scale = 0 THEN Fin(a.v * (b.v \div Scale))
             ELSE IF a.v % Scale = 0 THEN Fin((a.v \div Scale) * b.v)
             ELSE Fin(RoundDiv(a.v * b.v, Scale))
        [] OTHER -> IF Sign(a) * Sign(b) = 0 THEN FNaN ELSE Signed(Sign(a) * Sign(b))

\* a / b; 0 / 0 and Infinity / Infinity are NaN, x / 0 is an infinity
FDiv(a0, b0) ==
  LET a == ToNumber(a0)
      b == ToNumber(b0)
  IN  CASE a.k = "nan" \/ b.k = "nan" -> FNaN
        [] a.k = "num" /\ b.k = "num" ->
             IF b.v # 0 THEN Fin(RoundDiv(a.v * Scale, b.v))
             ELSE IF a.v = 0 THEN FNaN ELSE Signed(Sign(a))
        [] a.k = "num" -> Fin(0)
        [] b.k = "num" -> Signed(Sign(a) * (IF b.v < 0 THEN -1 ELSE 1))
        [] OTHER -> FNaN

\* a < b; false when either side is NaN
FLess(a0, b0) ==
  LET a == ToNumber(a0)
      b == ToNumber(b0)
  IN  CASE a.k = "nan" \/ b.k = "nan" -> FALSE
        [] a.k = "num" /\ b.k = "num" -> a.v < b.v
        [] a.k = "ninf" -> b.k # "ninf"
        [] OTHER -> b.k = "inf" /\ a.k # "inf"

\* Math.abs
FAbs(x) ==
  CASE x.k = "num" -> Fin(AbsInt(x.v))
    [] x.k \in {"inf", "ninf"} -> PosInf
    [] OTHER -> FNaN

\* the largest r with r * r <= n, searched between lo and hi
RECURSIVE RootBetween(_, _, _)
RootBetween(n, lo, hi) ==
  IF lo >= hi THEN lo
  ELSE IF ((lo + hi + 1) \div 2) * ((lo + hi + 1) \div 2) <= n
       THEN RootBetween(n, (lo + hi + 1) \div 2, hi)
       ELSE RootBetween(n, lo, (lo + hi + 1) \div 2 - 1)

\* Math.sqrt; NaN for a negative number
FSqrt(x) ==
  CASE x.k = "num" -> IF x.v < 0 THEN FNaN ELSE Fin(RootBetween(x.v * Scale, 0, 46340))
    [] x.k = "inf" -> PosInf
    [] OTHER -> FNaN

\* Math.round(x * 10^places) / 10^places, for the unit u = Scale / 10^places
RoundTo(x, u) ==
  IF ToNumber(x).k = "num" THEN Fin(((x.v + u \div 2) \div u) * u) ELSE ToNumber(x)

\* group.reduce((a, b) => a + b, 0)
RECURSIVE Total(_)
Total(group) == IF group = <<>> THEN Fin(0) ELSE FAdd(Total(SubSeq(group, 1, Len(group) - 1)), group[Len(group)])

\* group.reduce((a, b) => a + b, 0) / group.length
Mean(group) == FDiv(Total(group), Whole(Len(group)))

\* group.reduce((a, b) => a + Math.pow(b - mean, 2), 0) / (group.length - 1)
SampleVariance(group) ==
  Bind(Mean(group), LAMBDA mean :
    FDiv(Total([i \in 1..Len(group) |-> FMul(FSub(group[i], mean), FSub(group[i], mean))]),
         Whole(Len(group) - 1)))

\* betaIncomplete(a, b, x): 0 at x = 0 and 1 at x = 1; otherwise
\* Math.min(1, Math.max(0, front * f)), which is NaN for a NaN x and a
\* number between 0 and 1, here the given inner, when front * f is a number
betaIncomplete(x, inner) ==
  CASE x.k = "nan" -> FNaN
    [] x = Fin(0) -> Fin(0)
    [] x = Whole(1) -> Whole(1)
    [] OTHER -> inner

\* tCDF(t, df) = betaIncomplete(df / 2, 0.5, df / (df + t * t))
tCDF(t, df, inner) == betaIncomplete(FDiv(Whole(df), FAdd(Whole(df), FMul(t, t))), inner)

\* the interpretation text of tTest
Interpretation(significant, effectSize) ==
  IF ~significant THEN "No significant difference (p > 0.05)"
  ELSE IF FLess(FAbs(effectSize), Fin(2000)) THEN "Significant but negligible effect"
  ELSE IF FLess(FAbs(effectSize), Fin(5000)) THEN "Significant small effect"
  ELSE IF FLess(FAbs(effectSize), Fin(8000)) THEN "Significant medium effect"
  ELSE "Significant large effect"

\* tTest(group1, group2)
tTest(group1, group2, inner) ==
  IF Len(group1) = 0 \/ Len(group2) = 0
  THEN [tStatistic |-> Fin(0), pValue |-> Whole(1), degreesOfFreedom |-> 0,
        effectSize |-> Fin(0), significant |-> FALSE, interpretation |-> "Insufficient data"]
  ELSE
    Bind(FSub(Mean(group1), Mean(group2)), LAMBDA diff :
    Bind(FDiv(FAdd(FMul(Whole(Len(group1) - 1), SampleVariance(group1)),
                   FMul(Whole(Len(group2) - 1), SampleVariance(group2))),
              Whole(Len(group1) + Len(group2) - 2)), LAMBDA pooledVar :
    Bind(FDiv(diff, FSqrt(FMul(pooledVar, FAdd(FDiv(Whole(1), Whole(Len(group1))),
                                               FDiv(Whole(1), Whole(Len(group2))))))), LAMBDA tStatistic :
    Bind(FMul(Whole(2), FSub(Whole(1), tCDF(FAbs(tStatistic), Len(group1) + Len(group2) - 2, inner))), LAMBDA pValue :
    Bind(FDiv(diff, FSqrt(pooledVar)), LAMBDA effectSize :
      [tStatistic |-> RoundTo(tStatistic, 100),
       pValue |-> RoundTo(pValue, 1),
       degreesOfFreedom |-> Len(group1) + Len(group2) - 2,
       effectSize |-> RoundTo(effectSize, 100),
       significant |-> FLess(pValue, Fin(500)),
       interpretation |-> Interpretation(FLess(pValue, Fin(500)), effectSize)])))))

\* the lookup table of tValueFromDF
TLookup ==
  [df \in {1, 2, 3, 4, 5, 10, 20, 30} |->
     CASE df = 1 -> Fin(127060)
       [] df = 2 -> Fin(43030)
       [] df = 3 -> Fin(31820)
       [] df = 4 -> Fin(27760)
       [] df = 5 -> Fin(25710)
       [] df = 10 -> Fin(22280)
       [] df = 20 -> Fin(20860)
       [] df = 30 -> Fin(20420)]

\* tValueFromDF(df) returns lookup[df.toString()], undefined for a df
\* that is not a key; the statements after the return are never reached
tValueFromDF(df) == IF df \in DOMAIN TLookup THEN TLookup[df] ELSE NoNumber

\* confidenceInterval(data, confidence)
confidenceInterval(sample, confidence) ==
  IF Len(sample) < 2
  THEN [mean |-> Fin(0), lowerBound |-> Fin(0), upperBound |-> Fin(0),
        marginOfError |-> Fin(0), confidence |-> confidence]
  ELSE
    Bind(Mean(sample), LAMBDA mean :
    Bind(FMul(IF Len(sample) > 30 THEN Fin(19600) ELSE tValueFromDF(Len(sample) - 1),
              FDiv(FSqrt(SampleVariance(sample)), FSqrt(Whole(Len(sample))))), LAMBDA marginOfError :
      [mean |-> RoundTo(mean, 100),
       lowerBound |-> RoundTo(FSub(mean, marginOfError), 100),
       upperBound |-> RoundTo(FAdd(mean, marginOfError), 100),
       marginOfError |-> RoundTo(marginOfError, 100),
       confidence |-> confidence]))

\* Number(raw) of a decimal literal or a blank text, the fraction kept to
\* four digits
DecimalToNumber(raw) ==
  Bind(Unsigned(Trim(raw)), LAMBDA u :
    Bind(IF \E p \in 1..Len(u) : u[p] = "." THEN CHOOSE p \in 1..Len(u) : u[p] = "." ELSE Len(u) + 1,
         LAMBDA p :
      Fin((IF Trim(raw) # <<>> /\ Head(Trim(raw)) = "-" THEN -1 ELSE 1)
            * (DigitsToNat(SubSeq(u, 1, p - 1)) * Scale
                 + DigitsToNat(Take(SubSeq(u, p + 1, Len(u)) \o <<"0", "0", "0", "0">>, 4))))))

\* tryParseNumber(v): value is null (NoNumber) for an empty or rejected cell
tryParseNumber(v) ==
  IF isEmpty(v) THEN [ok |-> TRUE, value |-> NoNumber]
  ELSE IF ~IsNumberText(RawNumberText(v)) THEN [ok |-> FALSE, value |-> NoNumber]
  ELSE [ok |-> TRUE, value |-> DecimalToNumber(RawNumberText(v))]

(***************************************************************************)
(* Outliers of a column (detectAnomalies of advancedAnalysis.ts and        *)
(* generateBoxPlot of dataVisualization.ts).  A column is the sequence of  *)
(* the cells row[columnName] of the rows; whole numbers and halves are     *)
(* computed exactly.                                                       *)
(***************************************************************************)
RECURSIVE SortAsc(_)
\* [...values].sort((a, b) => a - b)
SortAsc(ns) ==
  IF ns = <<>> THEN <<>>
  ELSE Bind(CHOOSE i \in 1..Len(ns) : \A j \in 1..Len(ns) : ns[i] <= ns[j], LAMBDA i :
         <<ns[i]>> \o SortAsc(SubSeq(ns, 1, i - 1) \o SubSeq(ns, i + 1, Len(ns))))

\* value < q1 - 1.5 * iqr || value > q3 + 1.5 * iqr
OutsideFences(value, q1, q3) ==
  \/ 2 * value < 2 * q1 - 3 * (q3 - q1)
  \/ 2 * value > 2 * q3 + 3 * (q3 - q1)

\* the numericValues of analyzeColumnStats: the finite Number(v) of the cells
\* that are not null, undefined or ""
ColumnNumbers(cells) ==
  Bind(SelectSeq(cells, LAMBDA v : ~IsBlankCell(v) /\ ~CellToNumber(v).nan), LAMBDA kept :
    [i \in 1..Len(kept) |-> CellToNumber(kept[i]).n])

\* Math.abs(value - stats.mean) > 3 * stats.stdDev, with the mean and the
\* population standard deviation of analyzeColumnStats over the numbers ns
FarFromMean(value, ns) ==
  Bind(SumSeq(ns), LAMBDA total :
    Len(ns) * (Len(ns) * value - total) * (Len(ns) * value - total)
      > 9 * SumSeq([i \in 1..Len(ns) |-> (Len(ns) * ns[i] - total) * (Len(ns) * ns[i] - total)]))

\* the numericValues of detectAnomalies: Number(v) of every row, with the
\* index of the row, where the number is finite
NumericEntries(cells) ==
  SelectSeq([i \in 1..Len(cells) |-> [value |-> CellToNumber(cells[i]), index |-> i - 1]],
            LAMBDA e : ~e.value.nan)

\* the outlier branch of detectAnomalies (threshold 1.5)
OutlierAnomalies(cells) ==
  Bind(NumericEntries(cells), LAMBDA entries :
    Bind(SortAsc([i \in 1..Len(entries) |-> entries[i].value.n]), LAMBDA sorted :
      Bind(SelectSeq(entries, LAMBDA e :
             OutsideFences(e.value.n, sorted[Len(sorted) \div 4 + 1], sorted[(3 * Len(sorted)) \div 4 + 1])),
           LAMBDA flagged :
        [i \in 1..Len(flagged) |->
           [rowIndex |-> flagged[i].index, value |-> flagged[i].value.n, type |-> "outlier",
            severity |-> IF FarFromMean(flagged[i].value.n, ColumnNumbers(cells))
                           THEN "high" ELSE "medium"]])))

\* stats.uniqueValues: the first 20 distinct String(v) of the non-empty cells
UniqueValues(cells) ==
  Take(Uniq([i \in 1..Len(SelectSeq(cells, LAMBDA v : ~IsBlankCell(v))) |->
               CellToStr(SelectSeq(cells, LAMBDA v : ~IsBlankCell(v))[i])], {}), 20)

\* the unusual-length branch of detectAnomalies: v.length > avgLength * 2.5 or
\* v.length < avgLength * 0.1; no length is unusual when there is no unique
\* value (avgLength is 0 / 0)
LengthAnomalies(cells) ==
  Bind(UniqueValues(cells), LAMBDA unique :
    Bind(SumSeq([i \in 1..Len(unique) |-> Len(unique[i])]), LAMBDA total :
      Bind(SelectSeq([i \in 1..Len(cells) |-> [text |-> StrOrEmpty(cells[i]), index |-> i - 1]],
                     LAMBDA e :
             /\ unique # <<>>
             /\ \/ 2 * Len(e.text) * Len(unique) > 5 * total
                \/ 10 * Len(e.text) * Len(unique) < total),
           LAMBDA flagged :
        [i \in 1..Len(flagged) |->
           [rowIndex |-> flagged[i].index, value |-> flagged[i].text, type |-> "unusual_length",
            severity |-> "low"]])))

\* detectAnomalies(rows, columnName), the AnomalyInfo without its column
\* name: analyzeColumnStats gives null for no rows, the type number when a
\* non-empty cell is a finite number, and the type string otherwise
detectAnomalies(cells) ==
  [anomalies |-> IF cells = <<>> THEN <<>>
                 ELSE IF ColumnNumbers(cells) # <<>> THEN OutlierAnomalies(cells)
                 ELSE LengthAnomalies(cells)]

\* parseFloat(String(val)) of a text: the number its longest numeric prefix
\* denotes, NaN without one (the model's texts hold no fraction or exponent)
ParseFloat(s) ==
  Bind(TrimLeft(s), LAMBDA t :
    Bind(IF t # <<>> /\ t[1] \in {"-", "+"} THEN 2 ELSE 1, LAMBDA start :
      IF RunOf(t, start, DigitSet) = 0 THEN NaN
      ELSE Finite((IF start = 2 /\ t[1] = "-" THEN -1 ELSE 1)
                    * DigitsToNat(SubSeq(t, start, start + RunOf(t, start, DigitSet) - 1)))))

\* typeof val === 'number' ? val : parseFloat(String(val))
BoxPlotNumber(v) ==
  IF v.t = "num" THEN Finite(v.n)
  ELSE IF v.t = "null" THEN NaN
  ELSE ParseFloat(v.s)

\* s / 2 for a whole number s
HalfOf(s) == [n |-> s \div 2, half |-> s % 2 = 1]

\* generateBoxPlot(data, columnName)
generateBoxPlot(cells) ==
  Bind(SelectSeq([i \in 1..Len(cells) |-> BoxPlotNumber(cells[i])], LAMBDA x : ~x.nan), LAMBDA kept :
    Bind(SortAsc([i \in 1..Len(kept) |-> kept[i].n]), LAMBDA values :
      IF values = <<>>
        THEN [min |-> 0, q1 |-> 0, median |-> HalfOf(0), q3 |-> 0, max |-> 0, outliers |-> <<>>]
        ELSE [min |-> values[1],
              q1 |-> values[Len(values) \div 4 + 1],
              median |-> IF Len(values) % 2 = 0
                           THEN HalfOf(values[Len(values) \div 2] + values[Len(values) \div 2 + 1])
                           ELSE HalfOf(2 * values[Len(values) \div 2 + 1]),
              q3 |-> values[(3 * Len(values)) \div 4 + 1],
              max |-> values[Len(values)],
              outliers |-> SelectSeq(values, LAMBDA v :
                             OutsideFences(v, values[Len(values) \div 4 + 1],
                                           values[(3 * Len(values)) \div 4 + 1]))]))

(***************************************************************************)
(* Segment comparison (compareSegments of drillDown.ts).  A row holds the  *)
(* cell c of the segment column and the cell m of the analysed column.     *)
(***************************************************************************)
\* calculateSegmentStats(data, column); NoNumber stands for an absent field
calculateSegmentStats(segment, analyze) ==
  Bind(SelectSeq([i \in 1..Len(segment) |-> segment[i].m], LAMBDA v : v.t = "num"), LAMBDA kept :
    IF ~analyze \/ kept = <<>>
      THEN [rowCount |-> Len(segment), mean |-> NoNumber, median |-> NoNumber, stdev |-> NoNumber,
            min |-> NoNumber, max |-> NoNumber]
      ELSE
        Bind(SortAsc([i \in 1..Len(kept) |-> kept[i].n]), LAMBDA sorted :
        Bind(FDiv(Whole(SumSeq(sorted)), Whole(Len(sorted))), LAMBDA mean :
          [rowCount |-> Len(segment),
           mean |-> RoundTo(mean, 100),
           median |-> IF Len(sorted) % 2 = 0
                        THEN RoundTo(FDiv(Whole(sorted[Len(sorted) \div 2] + sorted[Len(sorted) \div 2 + 1]),
                                          Whole(2)), 100)
                        ELSE RoundTo(Whole(sorted[Len(sorted) \div 2 + 1]), 100),
           stdev |-> RoundTo(FSqrt(FDiv(Total([i \in 1..Len(sorted) |->
                                                 FMul(FSub(Whole(sorted[i]), mean), FSub(Whole(sorted[i]), mean))]),
                                        Whole(Len(sorted)))), 100),
           min |-> RoundTo(Whole(sorted[1]), 100),
           max |-> RoundTo(Whole(sorted[Len(sorted)]), 100)])))

\* a && b ? ... : undefined for two statistics: undefined, 0 and NaN are falsy
BothTruthy(a, b) == \A x \in {a, b} : x.k \in {"inf", "ninf"} \/ (x.k = "num" /\ x.v # 0)

\* Math.round((a - b) * 100) / 100 when both are truthy
RoundedDiff(a, b) == IF BothTruthy(a, b) THEN RoundTo(FSub(a, b), 100) ELSE NoNumber

\* compareSegments(data, column, value1, value2, analyzeColumn)
compareSegments(table, value1, value2, analyze) ==
  Bind(calculateSegmentStats(SelectSeq(table, LAMBDA row : row.c = value1), analyze), LAMBDA segment1Stats :
  Bind(calculateSegmentStats(SelectSeq(table, LAMBDA row : row.c = value2), analyze), LAMBDA segment2Stats :
  Bind(FMul(FDiv(Whole(segment1Stats.rowCount - segment2Stats.rowCount), Whole(segment2Stats.rowCount)),
            Whole(100)), LAMBDA rowCountDiffPercent :
    [segment1 |-> [name |-> CellToStr(value1)] @@ segment1Stats,
     segment2 |-> [name |-> CellToStr(value2)] @@ segment2Stats,
     differences |->
       [rowCountDiff |-> segment1Stats.rowCount - segment2Stats.rowCount,
        rowCountDiffPercent |-> RoundTo(rowCountDiffPercent, 100),
        meanDiff |-> RoundedDiff(segment1Stats.mean, segment2Stats.mean),
        meanDiffPercent |->
          IF BothTruthy(segment1Stats.mean, segment2Stats.mean)
            THEN RoundTo(FMul(FDiv(FSub(segment1Stats.mean, segment2Stats.mean), segment2Stats.mean),
                              Whole(100)), 100)
            ELSE NoNumber,
        medianDiff |-> RoundedDiff(segment1Stats.median, segment2Stats.median),
        stdevDiff |-> RoundedDiff(segment1Stats.stdev, segment2Stats.stdev)],
     isDifferentSignificant |-> FLess(Whole(10), FAbs(rowCountDiffPercent))])))

(***************************************************************************)
(* The lineage tracker (LineageTracker of dataLineage.ts).  Dates are      *)
(* whole hours of a clock; an event keeps its action, its row counts and   *)
(* its timestamp.                                                          *)
(***************************************************************************)
\* Math.min and Math.max of two numbers: NaN when either is NaN
FMin(a, b) ==
  IF ToNumber(a).k = "nan" \/ ToNumber(b).k = "nan" THEN FNaN
  ELSE IF FLess(b, a) THEN ToNumber(b) ELSE ToNumber(a)

FMax(a, b) ==
  IF ToNumber(a).k = "nan" \/ ToNumber(b).k = "nan" THEN FNaN
  ELSE IF FLess(a, b) THEN ToNumber(b) ELSE ToNumber(a)

\* Math.floor(x / n) for a whole number n > 0
FloorOver(x, n) == IF x.k = "num" THEN Whole(x.v \div (n * Scale)) ELSE x

\* the event recordEvent pushes: rowCountChange = affectedRows - previousRowCount
LineageEvent(action, affectedRows, previousRowCount, now) ==
  [action |-> action, affectedRows |-> affectedRows, previousRowCount |-> previousRowCount,
   rowCountChange |-> affectedRows - previousRowCount, timestamp |-> now]

\* this.events.filter((e) => e.action !== 'uploaded').length
TransformCount(evs) == Len(SelectSeq(evs, LAMBDA e : e.action # "uploaded"))

\* ((this.originalRowCount - this.currentRowCount) / this.originalRowCount) * 100
RowLoss(original, current) == FMul(FDiv(Whole(original - current), Whole(original)), Whole(100))

\* calculateTrustScore() at the hour now
calculateTrustScore(evs, original, current, now) ==
  IF evs = <<>> THEN Whole(50)
  ELSE
    Bind(FSub(Whole(100), FMin(Whole(30), Whole(now - evs[Len(evs)].timestamp))), LAMBDA aged :
    Bind(FSub(aged, FMin(Whole(20), Whole(TransformCount(evs) * 2))), LAMBDA transformed :
    Bind(FSub(transformed, FMin(Whole(25), FloorOver(RowLoss(original, current), 5))), LAMBDA reduced :
    Bind(IF TransformCount(evs) > 0 /\ evs[Len(evs)].rowCountChange = 0
           THEN FAdd(reduced, Whole(5)) ELSE reduced, LAMBDA score :
      FMax(Whole(0), FMin(Whole(100), RoundTo(score, Scale)))))))

\* getHistory() at the hour now
getHistory(evs, upload, original, current, now) ==
  [uploadTime |-> upload,
   lastModified |-> IF Len(evs) > 0 THEN evs[Len(evs)].timestamp ELSE upload,
   events |-> evs,
   totalTransformations |-> TransformCount(evs),
   currentRowCount |-> current,
   originalRowCount |-> original,
   dataTrustScore |-> calculateTrustScore(evs, original, current, now)]

(***************************************************************************)
(* State of the query builder: the arguments and the result of one         *)
(* executeQuery call, and the state of the QueryBuilderUI component with   *)
(* what its last step handed to onExecute and onGenerateSQL.               *)
(***************************************************************************)
VARIABLES data, config, result

VARIABLES filters, selectedColumns, orderByColumn, orderByDirection, limit, emitted

queryVars == <<data, config, result>>

uiVars == <<filters, selectedColumns, orderByColumn, orderByDirection, limit, emitted>>

\* the analytics dashboard: the numeric values of the selected column, the
\* two groups and the result of the last t-test, and the confidence interval
VARIABLES numbers, groups, testResult, ci

\* the cells of a column with the anomalies and the box plot computed from
\* them, and a table with the last comparison of two of its segments
VARIABLES columnCells, anomalyInfo, boxPlot, table, comparison

profileVars == <<columnCells, anomalyInfo, boxPlot, table, comparison>>

\* a lineage tracker: its events, its fields, the hour the clock shows and
\* the history last returned
VARIABLES events, uploadTime, originalRowCount, currentRowCount, clock, history

lineageVars == <<events, uploadTime, originalRowCount, currentRowCount, clock, history>>

\* the functions of the analysis used on their own: a line and the state of
\* the tokenizer that reads it, a column and the type inferred for it
VARIABLES csvLine, tokenizer, sampleColumn, inferredType

analysisVars == <<csvLine, tokenizer, sampleColumn, inferredType>>

\* the analysis in flight on the upload screen: the isAnalyzing flag and the
\* file the pending analyzeCsvFile call was given
VARIABLES isAnalyzing, inFlight

uploadVars == <<isAnalyzing, inFlight>>

libraryVars == <<lineageVars, analysisVars, uploadVars>>

statsVars == <<numbers, groups, testResult, ci, profileVars, libraryVars>>

vars == <<appVars, aiVars, queryVars, uiVars, statsVars>>

\* no statistics have been computed
SampleIdle ==
  /\ numbers = <<>>
  /\ groups = NoValue
  /\ testResult = NoValue
  /\ ci = NoValue

\* no column has been profiled, no segments have been compared
ProfileIdle ==
  /\ columnCells = <<>>
  /\ anomalyInfo = NoValue
  /\ boxPlot = NoValue
  /\ table = <<>>
  /\ comparison = NoValue

\* the state of a new LineageTracker
LineageInit ==
  /\ events = <<>>
  /\ uploadTime = 0
  /\ originalRowCount = 0
  /\ currentRowCount = 0
  /\ clock = 0
  /\ history = NoValue

\* no line has been tokenized, no type has been inferred
AnalysisIdle ==
  /\ csvLine = <<>>
  /\ tokenizer = NoValue
  /\ sampleColumn = <<>>
  /\ inferredType = NoValue

\* no analysis is in flight
UploadIdle ==
  /\ isAnalyzing = FALSE
  /\ inFlight = NoFile

LibraryIdle == LineageInit /\ AnalysisIdle /\ UploadIdle

StatsIdle == SampleIdle /\ ProfileIdle /\ LibraryIdle

\* the columns prop of QueryBuilderUI
QColumns == <<<<"c">>, <<"v">>>>

\* no query has been made
QueryIdle ==
  /\ data = <<>>
  /\ config = NoValue
  /\ result = NoValue

\* the useState initial values of QueryBuilderUI
UiInit ==
  /\ filters = <<>>
  /\ selectedColumns = QColumns
  /\ orderByColumn = (IF QColumns # <<>> THEN QColumns[1] ELSE <<>>)
  /\ orderByDirection = <<"a", "s", "c">>
  /\ limit = 100
  /\ emitted = NoValue

(***************************************************************************)
(* The application's handlers.                                             *)
(***************************************************************************)
AppInit ==
  /\ currentScreen = "upload"
  /\ selectedFile = NoFile
  /\ dataSummary = NoValue
  /\ cleaningIssues = NoValue
  /\ rows = <<>>
  /\ cleanedRows = <<>>
  /\ heap = EmptyHeap
  /\ headers = <<>>
  /\ lenient \in BOOLEAN
  /\ exported = NoValue
  /\ lastOp = "init"

\* handleFileSelect(file), from the upload screen
handleFileSelect(file) ==
  /\ currentScreen = "upload"
  /\ selectedFile' = file
  /\ lastOp' = "select"
  /\ UNCHANGED <<currentScreen, dataSummary, cleaningIssues, rows, cleanedRows,
                 heap, headers, lenient, exported>>
  /\ UNCHANGED <<aiVars, queryVars, uiVars, statsVars>>

\* handleAnalyze: rows and cleanedRows are set to the same parsed collection
handleAnalyze ==
  /\ currentScreen = "upload"
  /\ selectedFile # NoFile
  /\ \E r \in {analyzeCsvFile(selectedFile, lenient)} :
       /\ dataSummary' = r.dataSummary
       /\ cleaningIssues' = r.cleaningIssues
       /\ headers' = r.headers
       /\ heap' = r.rows
       /\ rows' = [i \in 1..Len(r.rows) |-> i]
       /\ cleanedRows' = [i \in 1..Len(r.rows) |-> i]
  /\ currentScreen' = "cleaning"
  /\ lastOp' = "analyze"
  /\ UNCHANGED <<selectedFile, lenient, exported>>
  /\ UNCHANGED <<aiVars, queryVars, uiVars, statsVars>>

\* handleClean(type), from the cleaning screen
handleClean(type) ==
  /\ currentScreen = "cleaning"
  /\ dataSummary # NoValue /\ cleaningIssues # NoValue
  /\ \E cleaned \in {cleanData(heap, cleanedRows, type, dataSummary)} :
       /\ \E gc \in {Collect(cleaned.heap, rows, cleaned.ids)} :
            /\ heap' = gc.heap
            /\ rows' = gc.rows
            /\ cleanedRows' = gc.cleanedRows
       /\ cleaningIssues' = calculateCleaningIssues(RowVals(cleaned.heap, cleaned.ids),
                                                    dataSummary.columnDetails)
  /\ lastOp' = type
  /\ UNCHANGED <<currentScreen, selectedFile, dataSummary, headers, lenient, exported>>
  /\ UNCHANGED <<aiVars, queryVars, uiVars, statsVars>>

\* onNext of the cleaning screen, and of the visualization screen, which is
\* rendered only when there is a summary and at least one cleaned row
onNext ==
  /\ \/ currentScreen = "cleaning" /\ dataSummary # NoValue /\ cleaningIssues # NoValue
        /\ currentScreen' = "visualization"
     \/ currentScreen = "visualization" /\ dataSummary # NoValue /\ cleanedRows # <<>>
        /\ currentScreen' = "summary"
  /\ lastOp' = "next"
  /\ UNCHANGED <<selectedFile, dataSummary, cleaningIssues, rows, cleanedRows,
                 heap, headers, lenient, exported>>
  /\ UNCHANGED <<aiVars, queryVars, uiVars, statsVars>>

\* "Go Back to Cleaning", shown instead of the visualization screen when
\* there is no summary or no cleaned row
onGoBack ==
  /\ currentScreen = "visualization"
  /\ dataSummary = NoValue \/ cleanedRows = <<>>
  /\ currentScreen' = "cleaning"
  /\ lastOp' = "back"
  /\ UNCHANGED <<selectedFile, dataSummary, cleaningIssues, rows, cleanedRows,
                 heap, headers, lenient, exported>>
  /\ UNCHANGED <<aiVars, queryVars, uiVars, statsVars>>

\* handleExport, from the summary screen
handleExport ==
  /\ currentScreen = "summary"
  /\ cleanedRows # <<>>
  /\ exported' = ExportCsv(headers, RowVals(heap, cleanedRows))
  /\ lastOp' = "export"
  /\ UNCHANGED <<currentScreen, selectedFile, dataSummary, cleaningIssues, rows,
                 cleanedRows, heap, headers, lenient>>
  /\ UNCHANGED <<aiVars, queryVars, uiVars, statsVars>>

\* onStartNew, from the summary screen
onStartNew ==
  /\ currentScreen = "summary"
  /\ currentScreen' = "upload"
  /\ selectedFile' = NoFile
  /\ dataSummary' = NoValue
  /\ cleaningIssues' = NoValue
  /\ rows' = <<>>
  /\ cleanedRows' = <<>>
  /\ heap' = EmptyHeap
  /\ headers' = <<>>
  /\ exported' = NoValue
  /\ lastOp' = "startNew"
  /\ UNCHANGED lenient
  /\ UNCHANGED <<aiVars, queryVars, uiVars, statsVars>>

AppNext ==
  \/ \E file \in Files : handleFileSelect(file)
  \/ handleAnalyze
  \/ \E type \in {"auto", "missing", "invalid"} : handleClean(type)
  \/ onNext
  \/ onGoBack
  \/ handleExport
  \/ onStartNew

(***************************************************************************)
(* The analysis panel: the assistant and the quality dashboard over the    *)
(* row set they are given.                                                 *)
(***************************************************************************)
AiHeaders == <<<<"n", "a", "m", "e">>, <<"s", "a", "l", "e", "s">>>>

NameCells == {Str(<<>>), Str(<<"a", "l">>), Str(<<"A", "l", " ", "b", ".">>)}

SalesCells == {Str(<<"$", "5">>), Str(<<"x">>), Num(0)}

AiRows == {<<c1, c2>> : c1 \in NameCells, c2 \in SalesCells}

Questions ==
  {<<"h", "o", "w", " ", "m", "a", "n", "y", " ", "r", "o", "w", "s">>, <<"H", "o", "w", " ", "m", "a", "n", "y", " ", "d", "u", "p", "l", "i", "c", "a", "t", "e", "s", "?">>, <<"l", "i", "s", "t", " ", "d", "u", "p", "l", "i", "c", "a", "t", "e", "s">>, <<"d", "a", "t", "a", " ", "q", "u", "a", "l", "i", "t", "y">>,
   <<"w", "h", "y", " ", "i", "s", " ", "i", "t", " ", "r", "a", "w">>, <<"h", "o", "w", " ", "m", "a", "n", "y", " ", "a", "l">>, <<"t", "o", "p", " ", "1", " ", "c", "u", "s", "t", "o", "m", "e", "r">>, <<"t", "o", "p", " ", "p", "r", "o", "d", "u", "c", "t">>,
   <<"s", "a", "l", "e", "s", " ", "b", "y", " ", "c", "u", "s", "t", "o", "m", "e", "r">>, <<"t", "o", "t", "a", "l", " ", "s", "a", "l", "e", "s">>, <<"h", "e", "l", "l", "o">>,
   <<"h", "o", "w", " ", "m", "a", "n", "y", " ", "r", "o", "w", "s", " ", "w", "h", "e", "r", "e", " ", "n", "a", "m", "e", " ", "i", "s", " ", "a", "l">>, <<"t", "o", "t", "a", "l", " ", "s", "a", "l", "e", "s", " ", "w", "h", "e", "r", "e", " ", "n", "a", "m", "e", " ", "c", "o", "n", "t", "a", "i", "n", "s", " ", "b">>,
   <<"w", "h", "y", " ", "d", "i", "r", "t", "y", " ", "d", "a", "t", "a">>, <<"d", "u", "p", "l", "i", "c", "a", "t", "e", " ", "i", "s", "s", "u", "e", "s">>, <<"h", "o", "w", " ", "m", "a", "n", "y", " ", "d", "u", "p", "l", "i", "c", "a", "t", "e", " ", "r", "o", "w", "s">>, <<"h", "o", "w", " ", "m", "a", "n", "y", " ", "a", "l", " ", "r", "o", "w", "s">>,
   <<"h", "o", "w", " ", "m", "a", "n", "y", " ", "t", "o", "p", " ", "c", "u", "s", "t", "o", "m", "e", "r">>, <<"t", "o", "p", " ", "s", "a", "l", "e", "s", " ", "b", "y", " ", "c", "u", "s", "t", "o", "m", "e", "r">>, <<"t", "o", "t", "a", "l", " ", "s", "a", "l", "e", "s", " ", "b", "y", " ", "c", "u", "s", "t", "o", "m", "e", "r">>,
   <<"h", "o", "w", " ", "m", "a", "n", "y", " ", "b">>, <<"h", "o", "w", " ", "m", "a", "n", "y", " ", "m", "i", "k", "e", " ", "a", "r", "e", " ", "t", "h", "e", "r", "e">>}

\* nothing asked, nothing shown
AiIdle ==
  /\ args = NoValue
  /\ answer = NoValue
  /\ qualityReport = NoValue

\* the row sets the exported functions take (DataRow[]): up to MaxAiRows
\* rows over AiHeaders, rows that are objects without any key, or ExampleRows
\* a customer column in which a name is a whole word of two cells and the
\* beginning of a longer word of a third
ExampleRows ==
  <<<<Str(<<"M", "i", "k", "e", " ", "S", "m", "i", "t", "h">>), Str(<<"$", "5">>)>>, <<Str(<<"M", "i", "k", "e", "l", "a", " ", "J", "o", "n", "e", "s">>), Str(<<"$", "5">>)>>,
    <<Str(<<"m", "i", "k", "e", " ", "b", "r", "o", "w", "n">>), Str(<<"$", "5">>)>>>>

AiRowSets ==
  SeqsUpTo(AiRows, MaxAiRows) \cup {[i \in 1..n |-> <<>>] : n \in 1..MaxAiRows} \cup {ExampleRows}

\* the panel is given a row set; headers are Object.keys(rows[0] ?? {}) or []
AiInit ==
  /\ \E rs \in AiRowSets :
       args = [question |-> <<>>, rows |-> rs,
               headers |-> IF rs = <<>> \/ rs[1] = <<>> THEN <<>> ELSE AiHeaders]
  /\ answer = NoValue
  /\ qualityReport = NoValue

\* the assistant answers a question with answerSalesQuestion
askQuestion(question) ==
  /\ args # NoValue
  /\ args' = [args EXCEPT !.question = question]
  /\ answer' = answerSalesQuestion([args EXCEPT !.question = question], lenient)
  /\ UNCHANGED <<qualityReport, appVars, queryVars, uiVars, statsVars>>

\* the dashboard computes generateQualityReport(data)
showQualityReport ==
  /\ args # NoValue
  /\ qualityReport' = generateQualityReport(args.rows, args.headers)
  /\ UNCHANGED <<args, answer, appVars, queryVars, uiVars, statsVars>>

AiNext ==
  \/ \E question \in Questions : askQuestion(question)
  \/ showQualityReport

InitAI == AppInit /\ AiInit /\ QueryIdle /\ UiInit /\ StatsIdle

SpecAI == InitAI /\ [][AiNext]_vars

(***************************************************************************)
(* executeQuery as a function of its arguments: up to MaxQueryRows rows    *)
(* and a config put together from a few choices for each of its parts.     *)
(***************************************************************************)
QRow(c, v) == <<[k |-> <<"c">>, v |-> c], [k |-> <<"v">>, v |-> v]>>

QueryRows ==
  {QRow(Str(<<"a">>), Num(1)), QRow(Str(<<"b">>), Num(2)), QRow(Str(<<"a">>), Num(2)),
   QRow(Str(<<"b">>), Str(<<>>))}

Datasets == SeqsUpTo(QueryRows, MaxQueryRows)

\* a QueryFilter
Filter(column, operator, value) == [column |-> column, operator |-> operator, value |-> value]

FilterLists ==
  {<<>>,
   <<Filter(<<"c">>, "equals", Str(<<"a">>))>>,
   <<Filter(<<"c">>, "contains", Str(<<"A">>))>>,
   <<Filter(<<"v">>, "greater", Num(1))>>,
   <<Filter(<<"v">>, "less", Num(2))>>,
   <<Filter(<<"v">>, "between", [min |-> 1, max |-> 1])>>,
   <<Filter(<<"c">>, "in", [items |-> <<<<"b">>, <<"x">>>>])>>,
   <<Filter(<<"v">>, "isNotEmpty", Str(<<>>))>>,
   <<Filter(<<"v">>, "isEmpty", Str(<<>>)), Filter(<<"c">>, "equals", Str(<<"b">>))>>}

GroupBys ==
  {NoValue,
   [column |-> <<"c">>, aggregations |-> <<[column |-> <<"v">>, type |-> <<"s", "u", "m">>]>>],
   [column |-> <<"c">>,
    aggregations |-> <<[column |-> <<"v">>, type |-> <<"a", "v", "g">>], [column |-> <<"v">>, type |-> <<"c", "o", "u", "n", "t">>],
                       [column |-> <<"v">>, type |-> <<"m", "i", "n">>], [column |-> <<"v">>, type |-> <<"m", "a", "x">>]>>]}

Selects == {<<>>, <<<<"c">>>>, <<<<"c">>, <<"v", "_", "s", "u", "m">>>>}

OrderBys ==
  {NoValue,
   [column |-> <<"v">>, direction |-> <<"d", "e", "s", "c">>],
   [column |-> <<"c">>, direction |-> <<"a", "s", "c">>],
   [column |-> <<"v", "_", "s", "u", "m">>, direction |-> <<"d", "e", "s", "c">>]}

Limits == {0, 1}

Configs ==
  {[select |-> s, filters |-> f, groupBy |-> g, orderBy |-> o, limit |-> l] :
     s \in Selects, f \in FilterLists, g \in GroupBys, o \in OrderBys, l \in Limits}

\* Date.now() - startTime
ExecutionTimes == {0, 1}

QueryInit ==
  /\ data \in Datasets
  /\ config \in Configs
  /\ result = NoValue

\* the application as constructed and not in use
AppIdle == AppInit /\ lenient = FALSE

\* one call executeQuery(data, config)
callExecuteQuery ==
  /\ result = NoValue
  /\ \E r \in {executeQuery(data, config)} : \E t \in ExecutionTimes :
       result' = r @@ [executionTime |-> t]
  /\ UNCHANGED <<data, config, uiVars, appVars, aiVars, statsVars>>

QueryNext == callExecuteQuery

InitQuery == AppIdle /\ AiIdle /\ QueryInit /\ UiInit /\ StatsIdle

SpecQuery == InitQuery /\ [][QueryNext]_vars

(***************************************************************************)
(* The QueryBuilderUI component.  emitted is what a step hands to          *)
(* onExecute (config) and onGenerateSQL (sql); a step that calls neither   *)
(* hands over nothing.                                                     *)
(***************************************************************************)
FILTER_OPERATORS ==
  <<"equals", "contains", "greater", "less", "between", "in", "isEmpty", "isNotEmpty">>

\* texts typed into the value input
UiValues == {Str(<<"1">>)}

\* numbers typed into the limit input
UiLimits == {0, 1}

addFilter ==
  /\ Len(filters) < MaxFilters
  /\ filters' = Append(filters, [column |-> IF QColumns # <<>> THEN QColumns[1] ELSE <<>>,
                                 operator |-> "equals", value |-> Str(<<>>)])
  /\ emitted' = NoValue
  /\ UNCHANGED <<selectedColumns, orderByColumn, orderByDirection, limit, queryVars, appVars, aiVars, statsVars>>

removeFilter(idx) ==
  /\ filters' = [i \in 1..(Len(filters) - 1) |-> IF i < idx THEN filters[i] ELSE filters[i + 1]]
  /\ emitted' = NoValue
  /\ UNCHANGED <<selectedColumns, orderByColumn, orderByDirection, limit, queryVars, appVars, aiVars, statsVars>>

updateFilter(idx, field, value) ==
  /\ filters' = [filters EXCEPT ![idx] = [@ EXCEPT ![field] = value]]
  /\ emitted' = NoValue
  /\ UNCHANGED <<selectedColumns, orderByColumn, orderByDirection, limit, queryVars, appVars, aiVars, statsVars>>

\* the onClick of a column button
toggleColumn(col) ==
  /\ selectedColumns' = IF \E i \in 1..Len(selectedColumns) : selectedColumns[i] = col
                          THEN SelectSeq(selectedColumns, LAMBDA c : c # col)
                          ELSE Append(selectedColumns, col)
  /\ emitted' = NoValue
  /\ UNCHANGED <<filters, orderByColumn, orderByDirection, limit, queryVars, appVars, aiVars, statsVars>>

setOrderByColumn(col) ==
  /\ orderByColumn' = col
  /\ emitted' = NoValue
  /\ UNCHANGED <<filters, selectedColumns, orderByDirection, limit, queryVars, appVars, aiVars, statsVars>>

setOrderByDirection(direction) ==
  /\ orderByDirection' = direction
  /\ emitted' = NoValue
  /\ UNCHANGED <<filters, selectedColumns, orderByColumn, limit, queryVars, appVars, aiVars, statsVars>>

setLimit(n) ==
  /\ limit' = n
  /\ emitted' = NoValue
  /\ UNCHANGED <<filters, selectedColumns, orderByColumn, orderByDirection, queryVars, appVars, aiVars, statsVars>>

\* the condition the component writes for one filter
UiFilterSQL(f) ==
  CASE f.operator = "equals" -> f.column \o <<" ", "=", " ", "'">> \o StringOf(f.value) \o <<"'">>
    [] f.operator = "contains" -> f.column \o <<" ", "L", "I", "K", "E", " ", "'", "%">> \o StringOf(f.value) \o <<"%", "'">>
    [] f.operator = "greater" -> f.column \o <<" ", ">", " ">> \o StringOf(f.value)
    [] f.operator = "less" -> f.column \o <<" ", "<", " ">> \o StringOf(f.value)
    [] OTHER -> <<>>

\* the config the component hands to onExecute
UiConfig ==
  [select |-> selectedColumns,
   filters |-> filters,
   groupBy |-> NoValue,
   orderBy |-> IF orderByColumn # <<>>
                 THEN [column |-> orderByColumn, direction |-> orderByDirection]
                 ELSE NoValue,
   limit |-> IF limit > 0 THEN limit ELSE 0]

\* the SQL text the component hands to onGenerateSQL
UiSql ==
  <<"S", "E", "L", "E", "C", "T", " ">> \o Join(selectedColumns, <<",", " ">>) \o <<" ", "F", "R", "O", "M", " ", "d", "a", "t", "a">>
  \o (IF Len(filters) > 0
        THEN <<" ", "W", "H", "E", "R", "E", " ">> \o Join([i \in 1..Len(filters) |-> UiFilterSQL(filters[i])], <<" ", "A", "N", "D", " ">>)
        ELSE <<>>)
  \o (IF orderByColumn # <<>>
        THEN <<" ", "O", "R", "D", "E", "R", " ", "B", "Y", " ">> \o orderByColumn \o <<" ">> \o ToUpper(orderByDirection)
        ELSE <<>>)
  \o (IF limit # 0 THEN <<" ", "L", "I", "M", "I", "T", " ">> \o NumToStr(limit) ELSE <<>>)

\* executeQuery of QueryBuilderUI (the Execute Query button)
uiExecuteQuery ==
  /\ emitted' = [config |-> UiConfig, sql |-> UiSql]
  /\ UNCHANGED <<filters, selectedColumns, orderByColumn, orderByDirection, limit, queryVars,
                 appVars, aiVars, statsVars>>

UiNext ==
  \/ addFilter
  \/ \E idx \in 1..Len(filters) : removeFilter(idx)
  \/ \E idx \in 1..Len(filters) :
       \/ \E col \in {QColumns[i] : i \in 1..Len(QColumns)} : updateFilter(idx, "column", col)
       \/ \E i \in 1..Len(FILTER_OPERATORS) : updateFilter(idx, "operator", FILTER_OPERATORS[i])
       \/ \E value \in UiValues \cup {Str(<<>>)} : updateFilter(idx, "value", value)
  \/ \E col \in {QColumns[i] : i \in 1..Len(QColumns)} : toggleColumn(col)
  \/ \E col \in {<<>>} \cup {QColumns[i] : i \in 1..Len(QColumns)} : setOrderByColumn(col)
  \/ \E direction \in {<<"a", "s", "c">>, <<"d", "e", "s", "c">>} : setOrderByDirection(direction)
  \/ \E n \in UiLimits : setLimit(n)
  \/ uiExecuteQuery

InitUI == AppIdle /\ AiIdle /\ QueryIdle /\ UiInit /\ StatsIdle

SpecQueryUI == InitUI /\ [][UiNext]_vars

(***************************************************************************)
(* Cleaning of a typed column: files of two columns whose first column has *)
(* BaseRows equal cells, which decide its type, and one cell of another    *)
(* kind in the last row.                                                   *)
(***************************************************************************)
BaseRows == 6

TypedHeaderLine == <<"d", ",", "k">>

\* a date, a number and a text
BaseFields == {<<"2", "0", "2", "4", "-", "0", "1", "-", "0", "2">>, <<"7">>, <<"a", "b">>}

\* a blank cell, two texts the emptiness predicate takes for empty, a text
\* that is neither a number nor a date, an amount with a currency sign and
\* a quoted amount with a thousands separator and a fraction
OddFields == {<<>>, <<"n", "u", "l", "l">>, <<"N", "a", "N">>, <<"x">>, <<"$", "5">>, <<"\"", "1", ",", "2", "3", "4", ".", "5", "6", "\"">>}

TypedFiles ==
  {Join(<<TypedHeaderLine>> \o [i \in 1..BaseRows |-> base \o <<",", "a", "b">>] \o <<odd \o <<",", "a", "b">>>>,
        <<Newline>>) : base \in BaseFields, odd \in OddFields}

CleanNext ==
  \/ \E file \in TypedFiles : handleFileSelect(file)
  \/ handleAnalyze
  \/ \E type \in {"auto", "missing", "invalid"} : handleClean(type)
  \/ onNext

InitClean == AppInit /\ AiIdle /\ QueryIdle /\ UiInit /\ StatsIdle

SpecClean == InitClean /\ [][CleanNext]_vars

(***************************************************************************)
(* The statistics of the analytics dashboard: a column's numeric values,   *)
(* the t-test of its two halves and the confidence interval of its mean.   *)
(***************************************************************************)
MaxSample == 7

SampleValues == {Whole(1), Whole(2)}

\* the values betaIncomplete is given for 0 < x < 1
InnerValues == {Fin(0), Fin(5000), Whole(1)}

StatsInit ==
  /\ numbers \in SeqsUpTo(SampleValues, MaxSample)
  /\ groups = NoValue
  /\ testResult = NoValue
  /\ ci = NoValue
  /\ ProfileIdle
  /\ LibraryIdle

\* tTest(group1, group2) on the values before and from position mid
callTTest(mid) ==
  /\ groups' = <<SubSeq(numbers, 1, mid), SubSeq(numbers, mid + 1, Len(numbers))>>
  /\ \E inner \in InnerValues :
       testResult' = tTest(SubSeq(numbers, 1, mid), SubSeq(numbers, mid + 1, Len(numbers)), inner)
  /\ UNCHANGED <<numbers, ci, profileVars, libraryVars, appVars, aiVars, queryVars, uiVars>>

\* the Statistical Tests panel: the values are split in half for the t-test
showStatisticalTests ==
  /\ Len(numbers) >= 2
  /\ callTTest(Len(numbers) \div 2)

\* the Confidence Interval card: confidenceInterval(values, 0.95)
showConfidenceInterval ==
  /\ ci' = confidenceInterval(numbers, 95)
  /\ UNCHANGED <<numbers, groups, testResult, profileVars, libraryVars, appVars, aiVars, queryVars, uiVars>>

StatsNext ==
  \/ \E mid \in 0..Len(numbers) : callTTest(mid)
  \/ showStatisticalTests
  \/ showConfidenceInterval

InitStats == AppIdle /\ AiIdle /\ QueryIdle /\ UiInit /\ StatsInit

SpecStats == InitStats /\ [][StatsNext]_vars

(***************************************************************************)
(* Outlier detection over a column.                                        *)
(***************************************************************************)
MaxColumn == 5

\* a blank cell, a text, and numbers
OutlierCells == {Str(<<>>), Str(<<"x">>), Num(1), Num(4), Num(6), Num(9)}

ExampleColumn == <<Num(10), Num(12), Num(11), Num(13), Num(1000)>>

OutlierInit ==
  /\ columnCells \in SeqsUpTo(OutlierCells, MaxColumn) \cup {ExampleColumn}
  /\ anomalyInfo = NoValue
  /\ boxPlot = NoValue
  /\ table = <<>>
  /\ comparison = NoValue

callDetectAnomalies ==
  /\ anomalyInfo' = detectAnomalies(columnCells)
  /\ UNCHANGED <<columnCells, boxPlot, table, comparison, numbers, groups, testResult, ci,
                 libraryVars, appVars, aiVars, queryVars, uiVars>>

callGenerateBoxPlot ==
  /\ boxPlot' = generateBoxPlot(columnCells)
  /\ UNCHANGED <<columnCells, anomalyInfo, table, comparison, numbers, groups, testResult, ci,
                 libraryVars, appVars, aiVars, queryVars, uiVars>>

OutlierNext == callDetectAnomalies \/ callGenerateBoxPlot

InitOutliers ==
  AppIdle /\ AiIdle /\ QueryIdle /\ UiInit /\ SampleIdle /\ LibraryIdle /\ OutlierInit

SpecOutliers == InitOutliers /\ [][OutlierNext]_vars

(***************************************************************************)
(* Comparison of two segments of a table.                                  *)
(***************************************************************************)
MaxSegmentRows == 3

SegmentValues == {Str(<<"a">>), Str(<<"b">>)}

MetricCells == {Num(1), Num(3), Str(<<>>)}

SegmentInit ==
  /\ table \in SeqsUpTo({[c |-> c, m |-> m] : c \in SegmentValues, m \in MetricCells}, MaxSegmentRows)
  /\ comparison = NoValue
  /\ columnCells = <<>>
  /\ anomalyInfo = NoValue
  /\ boxPlot = NoValue

callCompareSegments(value1, value2, analyze) ==
  /\ comparison' = [value1 |-> value1, value2 |-> value2,
                    result |-> compareSegments(table, value1, value2, analyze)]
  /\ UNCHANGED <<table, columnCells, anomalyInfo, boxPlot, numbers, groups, testResult, ci,
                 libraryVars, appVars, aiVars, queryVars, uiVars>>

SegmentNext ==
  \E value1 \in SegmentValues, value2 \in SegmentValues, analyze \in BOOLEAN :
    callCompareSegments(value1, value2, analyze)

InitSegments ==
  AppIdle /\ AiIdle /\ QueryIdle /\ UiInit /\ SampleIdle /\ LibraryIdle /\ SegmentInit

SpecSegments == InitSegments /\ [][SegmentNext]_vars

(***************************************************************************)
(* A lineage tracker in use: its methods are called in any order with any  *)
(* row counts up to MaxCount, while the clock moves on.                    *)
(***************************************************************************)
MaxEvents == 2

MaxCount == 2

\* the hours the clock shows
Hours == {0, 16, 32}

\* recordEvent(event)
recordEvent(action, affectedRows, previousRowCount) ==
  /\ Len(events) < MaxEvents
  /\ currentRowCount' = affectedRows
  /\ events' = Append(events, LineageEvent(action, affectedRows, previousRowCount, clock))
  /\ UNCHANGED <<clock, history, analysisVars, uploadVars, appVars, aiVars, queryVars, uiVars,
                 numbers, groups, testResult, ci, profileVars>>

\* initialize(rowCount, fileName)
initialize(rowCount) ==
  /\ uploadTime' = clock
  /\ originalRowCount' = rowCount
  /\ recordEvent("uploaded", rowCount, 0)

\* recordFilter(filterDescription, previousCount, newCount, filterDetails)
recordFilter(previousCount, newCount) ==
  /\ recordEvent("filtered", newCount, previousCount)
  /\ UNCHANGED <<uploadTime, originalRowCount>>

\* recordAggregation(groupColumn, aggregationType, resultRowCount, previousCount)
recordAggregation(resultRowCount, previousCount) ==
  /\ recordEvent("aggregated", resultRowCount, previousCount)
  /\ UNCHANGED <<uploadTime, originalRowCount>>

\* recordTransformation(description, affectedRows, previousCount, details)
recordTransformation(affectedRows, previousCount) ==
  /\ recordEvent("transformed", affectedRows, previousCount)
  /\ UNCHANGED <<uploadTime, originalRowCount>>

\* recordExport(format, rowCount)
recordExport(rowCount) ==
  /\ recordEvent("exported", rowCount, rowCount)
  /\ UNCHANGED <<uploadTime, originalRowCount>>

\* getHistory()
callGetHistory ==
  /\ history' = getHistory(events, uploadTime, originalRowCount, currentRowCount, clock)
  /\ UNCHANGED <<events, uploadTime, originalRowCount, currentRowCount, clock, analysisVars, uploadVars,
                 appVars, aiVars, queryVars, uiVars, numbers, groups, testResult, ci, profileVars>>

\* time passes
passTime ==
  /\ \E hour \in Hours : hour > clock /\ clock' = hour
  /\ UNCHANGED <<events, uploadTime, originalRowCount, currentRowCount, history, analysisVars, uploadVars,
                 appVars, aiVars, queryVars, uiVars, numbers, groups, testResult, ci, profileVars>>

LineageNext ==
  \/ \E rowCount \in 0..MaxCount : initialize(rowCount)
  \/ \E previousCount \in 0..MaxCount, newCount \in 0..MaxCount : recordFilter(previousCount, newCount)
  \/ \E resultRowCount \in 0..MaxCount, previousCount \in 0..MaxCount :
       recordAggregation(resultRowCount, previousCount)
  \/ \E affectedRows \in 0..MaxCount, previousCount \in 0..MaxCount :
       recordTransformation(affectedRows, previousCount)
  \/ \E rowCount \in 0..MaxCount : recordExport(rowCount)
  \/ callGetHistory
  \/ passTime

InitLineage == AppIdle /\ AiIdle /\ QueryIdle /\ UiInit /\ StatsIdle

SpecLineage == InitLineage /\ [][LineageNext]_vars

(***************************************************************************)
(* The tokenizer of parseLine, one step for each turn of its loop.  The    *)
(* tokenizer holds the 1-based position i, the field buffer cur, the       *)
(* inQuotes flag, the fields out pushed so far and whether the last field  *)
(* has been pushed.                                                        *)
(***************************************************************************)
MaxLine == 6

LineChars == {"a", " ", Comma, Quote}

TokenizerInit ==
  /\ csvLine \in SeqsUpTo(LineChars, MaxLine)
  /\ tokenizer = [i |-> 1, cur |-> <<>>, inQuotes |-> FALSE, out |-> <<>>, done |-> FALSE]
  /\ sampleColumn = <<>>
  /\ inferredType = NoValue

\* the loop is at a character
AtChar == tokenizer # NoValue /\ ~tokenizer.done /\ tokenizer.i <= Len(csvLine)

\* inQuotes && next === '"' at a quote
AtEscapedQuote ==
  /\ AtChar /\ csvLine[tokenizer.i] = Quote
  /\ tokenizer.inQuotes /\ tokenizer.i + 1 <= Len(csvLine) /\ csvLine[tokenizer.i + 1] = Quote

\* ch === "," whatever the state
AtComma == AtChar /\ csvLine[tokenizer.i] = Comma

\* ch === "," && !inQuotes
AtSeparator == AtChar /\ csvLine[tokenizer.i] = Comma /\ ~tokenizer.inQuotes

TokenizerFrame ==
  UNCHANGED <<csvLine, sampleColumn, inferredType, lineageVars, uploadVars, appVars, aiVars,
              queryVars, uiVars, numbers, groups, testResult, ci, profileVars>>

\* a doubled quote inside quotes: cur += '"'; i++
scanEscapedQuote ==
  /\ AtEscapedQuote
  /\ tokenizer' = [tokenizer EXCEPT !.cur = Append(@, Quote), !.i = @ + 2]
  /\ TokenizerFrame

\* any other quote: inQuotes = !inQuotes
scanQuote ==
  /\ AtChar /\ csvLine[tokenizer.i] = Quote /\ ~AtEscapedQuote
  /\ tokenizer' = [tokenizer EXCEPT !.inQuotes = ~@, !.i = @ + 1]
  /\ TokenizerFrame

\* a comma outside quotes: out.push(cur.trim()); cur = ""
scanComma ==
  /\ AtSeparator
  /\ tokenizer' = [tokenizer EXCEPT !.out = Append(@, Trim(tokenizer.cur)), !.cur = <<>>, !.i = @ + 1]
  /\ TokenizerFrame

\* every other character: cur += ch
scanChar ==
  /\ AtChar /\ csvLine[tokenizer.i] # Quote /\ ~AtSeparator
  /\ tokenizer' = [tokenizer EXCEPT !.cur = Append(@, csvLine[tokenizer.i]), !.i = @ + 1]
  /\ TokenizerFrame

\* after the loop: out.push(cur.trim())
flushLine ==
  /\ tokenizer # NoValue /\ ~tokenizer.done /\ tokenizer.i > Len(csvLine)
  /\ tokenizer' = [tokenizer EXCEPT !.out = Append(@, Trim(tokenizer.cur)), !.done = TRUE]
  /\ TokenizerFrame

TokenizerNext == scanEscapedQuote \/ scanQuote \/ scanComma \/ scanChar \/ flushLine

InitTokenizer ==
  AppIdle /\ AiIdle /\ QueryIdle /\ UiInit /\ SampleIdle /\ ProfileIdle /\ LineageInit /\ UploadIdle
    /\ TokenizerInit

SpecTokenizer == InitTokenizer /\ [][TokenizerNext]_vars

(***************************************************************************)
(* inferType on a column of its own: a column is a run of blank cells, a   *)
(* run of numbers, a run of dates, a run of texts and a second run of      *)
(* numbers, long enough to go past the sample of SampleSize values.        *)
(***************************************************************************)
Run(cell, n) == [k \in 1..n |-> cell]

BlankRuns == {0, 1}

NumberRuns == {0, 5, 6, 17, 33, 34}

DateRuns == {0, 1, 6, 34}

TextRuns == {0, 1, 6}

LateNumberRuns == {0, 20}

SampleColumns ==
  {Run(Str(<<>>), b) \o Run(Str(<<"7">>), n) \o Run(Str(<<"2", "0", "2", "4", "-", "0", "1", "-", "0", "2">>), d) \o Run(Str(<<"a", "b">>), t)
     \o Run(Str(<<"7">>), late) :
     b \in BlankRuns, n \in NumberRuns, d \in DateRuns, t \in TextRuns, late \in LateNumberRuns}

InferInit ==
  /\ sampleColumn \in SampleColumns
  /\ inferredType = NoValue
  /\ csvLine = <<>>
  /\ tokenizer = NoValue

\* inferType(values) in an engine whose Date parser is lenient or not
callInferType ==
  /\ inferredType' = [type |-> inferType(sampleColumn, lenient)]
  /\ UNCHANGED <<sampleColumn, csvLine, tokenizer, lineageVars, uploadVars, appVars, aiVars,
                 queryVars, uiVars, numbers, groups, testResult, ci, profileVars>>

InferNext == callInferType

InitInfer ==
  AppInit /\ AiIdle /\ QueryIdle /\ UiInit /\ SampleIdle /\ ProfileIdle /\ LineageInit /\ UploadIdle
    /\ InferInit

SpecInfer == InitInfer /\ [][InferNext]_vars

(***************************************************************************)
(* Duplicate removal over cells that hold the character of the signature's *)
(* separator: files of two columns and up to MaxPipeRows data lines whose  *)
(* fields are one or two bars.                                             *)
(***************************************************************************)
MaxPipeRows == 2

PipeFields == {<<"|">>, <<"|", "|">>}

PipeLines == {f1 \o <<Comma>> \o f2 : f1 \in PipeFields, f2 \in PipeFields}

PipeFiles == {Join(<<HeaderLine>> \o ls, <<Newline>>) : ls \in SeqsUpTo(PipeLines, MaxPipeRows)}

DedupeNext ==
  \/ \E file \in PipeFiles : handleFileSelect(file)
  \/ handleAnalyze
  \/ \E type \in {"auto", "missing", "invalid"} : handleClean(type)

InitDedupe == AppInit /\ AiIdle /\ QueryIdle /\ UiInit /\ StatsIdle

SpecDedupe == InitDedupe /\ [][DedupeNext]_vars

(***************************************************************************)
(* The upload screen with the analysis as the two halves of an async       *)
(* function: the part before await analyzeCsvFile(file), which captures    *)
(* the file, and the continuation, which stores the results.  The file     *)
(* input and the drop zone stay enabled in between.                        *)
(***************************************************************************)
MaxUploadRows == 1

UploadFiles == {Join(<<HeaderLine>> \o ls, <<Newline>>) : ls \in SeqsUpTo(DataLines, MaxUploadRows)}

\* the file handleLoadSample builds from generateMockRows(), in the two
\* columns and the cells of the model: a repeated row and a blank cell
SampleFile == Join(<<HeaderLine, <<"0", Comma, "|">>, <<"0", Comma, "|">>, <<Comma, "|">>>>, <<Newline>>)

\* handleAnalyze up to its await: the Analyze button is disabled without a
\* file and while isAnalyzing
startAnalyze ==
  /\ currentScreen = "upload"
  /\ selectedFile # NoFile
  /\ ~isAnalyzing
  /\ isAnalyzing' = TRUE
  /\ inFlight' = selectedFile
  /\ lastOp' = "analyzing"
  /\ UNCHANGED <<currentScreen, selectedFile, dataSummary, cleaningIssues, rows, cleanedRows,
                 heap, headers, lenient, exported>>
  /\ UNCHANGED <<aiVars, queryVars, uiVars, numbers, groups, testResult, ci, profileVars,
                 lineageVars, analysisVars>>

\* handleLoadSample up to its await: the sample button is disabled while
\* isAnalyzing
startLoadSample ==
  /\ currentScreen = "upload"
  /\ ~isAnalyzing
  /\ isAnalyzing' = TRUE
  /\ selectedFile' = SampleFile
  /\ inFlight' = SampleFile
  /\ lastOp' = "analyzing"
  /\ UNCHANGED <<currentScreen, dataSummary, cleaningIssues, rows, cleanedRows,
                 heap, headers, lenient, exported>>
  /\ UNCHANGED <<aiVars, queryVars, uiVars, numbers, groups, testResult, ci, profileVars,
                 lineageVars, analysisVars>>

\* the continuation of either handler: the results of the file the call
\* was made with are stored, then finally setIsAnalyzing(false)
finishAnalyze ==
  /\ isAnalyzing
  /\ \E r \in {analyzeCsvFile(inFlight, lenient)} :
       /\ dataSummary' = r.dataSummary
       /\ cleaningIssues' = r.cleaningIssues
       /\ headers' = r.headers
       /\ heap' = r.rows
       /\ rows' = [i \in 1..Len(r.rows) |-> i]
       /\ cleanedRows' = [i \in 1..Len(r.rows) |-> i]
  /\ currentScreen' = "cleaning"
  /\ isAnalyzing' = FALSE
  /\ inFlight' = NoFile
  /\ lastOp' = "analyze"
  /\ UNCHANGED <<selectedFile, lenient, exported>>
  /\ UNCHANGED <<aiVars, queryVars, uiVars, numbers, groups, testResult, ci, profileVars,
                 lineageVars, analysisVars>>

UploadNext ==
  \/ \E file \in UploadFiles : handleFileSelect(file)
  \/ startAnalyze
  \/ startLoadSample
  \/ finishAnalyze

InitUpload == AppInit /\ AiIdle /\ QueryIdle /\ UiInit /\ StatsIdle

SpecUpload == InitUpload /\ [][UploadNext]_vars

(***************************************************************************)
(* A filter built from text the user typed, applied to a dataset:          *)
(* buildFilterFromInput, then executeQuery with that one filter.           *)
(***************************************************************************)
\* texts typed into the value input
UserTexts == {<<"1">>, <<"2">>, <<"a">>, <<>>}

\* Number(text) as a filter value; NaN is kept as the value whose Number()
\* is NaN
NumberValue(text) ==
  IF StrToNumber(text).nan THEN Undefined ELSE Num(StrToNumber(text).n)

\* buildFilterFromInput(column, operator, userValue); the bounds of between
\* are whole numbers here
buildFilterFromInput(column, operator, userValue) ==
  Filter(column, operator,
         IF operator \in {"greater", "less"} THEN NumberValue(userValue)
         ELSE IF operator = "between"
           THEN Bind([i \in 1..Len(Split(userValue, "-")) |-> StrToNumber(Trim(Split(userValue, "-")[i])).n],
                     LAMBDA parts : [min |-> parts[1], max |-> parts[2]])
         ELSE IF operator = "in"
           THEN [items |-> [i \in 1..Len(Split(userValue, Comma)) |-> Trim(Split(userValue, Comma)[i])]]
         ELSE Str(userValue))

FilterInputInit ==
  /\ data \in Datasets
  /\ config = NoValue
  /\ result = NoValue

\* executeQuery(data, { filters: [buildFilterFromInput(column, operator, userValue)] })
filterByInput(column, operator, userValue) ==
  /\ result = NoValue
  /\ config' = [select |-> <<>>, filters |-> <<buildFilterFromInput(column, operator, userValue)>>,
                groupBy |-> NoValue, orderBy |-> NoValue, limit |-> 0]
  /\ \E t \in ExecutionTimes : result' = executeQuery(data, config') @@ [executionTime |-> t]
  /\ UNCHANGED <<data, uiVars, appVars, aiVars, statsVars>>

FilterInputNext ==
  \/ \E col \in {QColumns[i] : i \in 1..Len(QColumns)}, userValue \in UserTexts :
       \E op \in {"equals", "contains", "isEmpty", "isNotEmpty"} : filterByInput(col, op, userValue)
  \/ \E userValue \in UserTexts : \E op \in {"greater", "less"} : filterByInput(<<"v">>, op, userValue)
  \/ filterByInput(<<"v">>, "between", <<"1", "-", "2">>)
  \/ filterByInput(<<"c">>, "in", <<"a", Comma, " ", "x">>)

InitFilterInput == AppIdle /\ AiIdle /\ FilterInputInit /\ UiInit /\ StatsIdle

SpecFilterInput == InitFilterInput /\ [][FilterInputNext]_vars

Init == AppInit /\ AiIdle /\ QueryIdle /\ UiInit /\ StatsIdle

Next == AppNext

Spec == Init /\ [][Next]_vars

(***************************************************************************)
(* Properties of the application.                                          *)
(***************************************************************************)
CleanModes == {"auto", "missing", "invalid"}

\* the texts of a row's cells, in column order
RowText(row) == [i \in 1..Len(row) |-> StrOrEmpty(row[i])]

\* the rows of a collection that repeat an earlier row, cell text by cell text
RepeatedRows(vals) == Len(vals) - Cardinality({RowText(vals[k]) : k \in 1..Len(vals)})

\* C1: after every handleClean (any mode, any number of calls after an
\* analysis) the summary and the issues describe the cleaned rows:
\* dataSummary.rows is the number of cleaned rows, and dataSummary.duplicates
\* and cleaningIssues.duplicates are both the number of duplicate cleaned rows.
C1_SummaryDescribesCleanedRows ==
  lastOp \in CleanModes =>
    /\ dataSummary.rows = Len(cleanedRows)
    /\ dataSummary.duplicates = cleaningIssues.duplicates
    /\ cleaningIssues.duplicates = RepeatedRows(RowVals(heap, cleanedRows))

\* C2: cleaning never mutates the original data: after any sequence of
\* handleClean calls the rows collection and each of its row objects hold
\* the values they had right after parsing, and the cleaned collection is
\* made of new row objects.
C2_OriginalRowsUntouched ==
  currentScreen # "upload" =>
    /\ RowVals(heap, rows) = analyzeCsvFile(selectedFile, lenient).rows
    /\ lastOp \in CleanModes =>
         {rows[i] : i \in 1..Len(rows)} \cap {cleanedRows[i] : i \in 1..Len(cleanedRows)} = {}

\* a clean has rewritten at least one cell of the working collection
C2_Witness ==
  /\ lastOp \in CleanModes
  /\ Len(cleanedRows) = Len(rows)
  /\ RowVals(heap, cleanedRows) # RowVals(heap, rows)

\* the rows whose signature no earlier row has, in their original order
KeepFirstOccurrence(vals) ==
  Bind(SelectSeq([k \in 1..Len(vals) |-> k],
                 LAMBDA k : \A j \in 1..(k - 1) : ValuesSignature(vals[j]) # ValuesSignature(vals[k])),
       LAMBDA idx : [m \in 1..Len(idx) |-> vals[idx[m]]])

\* one pass over the values of a collection
PassOver(vals, cols, pass) == [k \in 1..Len(vals) |-> PassCells(vals[k], cols, pass)]

C4_DuplicatesIsRowsMinusDistinct ==
  dataSummary # NoValue =>
    dataSummary.duplicates = RepeatedRows(RowVals(heap, rows))

\* the profiler counted one duplicate among three rows
C4_Witness ==
  /\ dataSummary # NoValue
  /\ dataSummary.rows = 3
  /\ dataSummary.duplicates = 1

\* C5: for every row set the profiler's estimateDuplicates, the query
\* layer's findDuplicateStats and the cleaning layer's
\* calculateCleaningIssues return the same duplicate count.
C5_DuplicateCountersAgree ==
  dataSummary # NoValue =>
    /\ estimateDuplicates(headers, RowVals(heap, cleanedRows))
         = findDuplicateStats(RowVals(heap, cleanedRows), headers).duplicateRowCount
    /\ findDuplicateStats(RowVals(heap, cleanedRows), headers).duplicateRowCount
         = calculateCleaningIssues(RowVals(heap, cleanedRows), dataSummary.columnDetails).duplicates

\* C9: parsing the exported CSV text with parseCsv yields as many data rows
\* as were exported and, column by column, the same cell texts.
C9_ExportRoundTrip ==
  exported # NoValue =>
    /\ Len(parseCsv(exported).rows) = Len(cleanedRows)
    /\ \A k \in 1..Len(cleanedRows) :
         /\ Len(parseCsv(exported).rows[k]) = Len(headers)
         /\ \A i \in 1..Len(headers) :
              parseCsv(exported).rows[k][i] = StrOrEmpty(heap[cleanedRows[k]][i])

\* C6: every answer returned by answerSalesQuestion, for every question, row
\* set and header list, carries a non-empty how[] trail that states the
\* filters applied and then the number of rows considered.
C6_EveryAnswerHasHowTrail ==
  answer # NoValue =>
    /\ Len(answer.how) >= 2
    /\ answer.how[1].text \in {"Filters applied", "No filters applied."}
    /\ answer.how[2].text = "Rows considered"

\* the four scores of a quality report
ReportScores == {"completeness", "uniqueness", "validity", "overallScore"}

PassedFilters ==
  IF config.filters # <<>>
    THEN SelectSeq(data, LAMBDA row :
           \A i \in 1..Len(config.filters) : FilterHolds(row, config.filters[i]))
    ELSE data

\* the groups made of the rows that passed the filters
GroupedRows ==
  IF config.groupBy # NoValue THEN applyGroupBy(PassedFilters, config.groupBy) ELSE PassedFilters

\* the selected columns of the grouped rows
ProjectedRows ==
  IF config.select # <<>> THEN SelectColumns(GroupedRows, config.select) ELSE GroupedRows

\* the projected rows in the requested order
SortedRows ==
  IF config.orderBy # NoValue THEN applyOrderBy(ProjectedRows, config.orderBy) ELSE ProjectedRows

\* C7: executeQuery applies filters, then groupBy, then the column selection,
\* then orderBy, then limit: grouping sees only the rows that passed all
\* filters, projection runs on the grouped rows, sorting on the projected
\* rows, and limit keeps the first `limit` rows of the sorted result.
C7_StagesInFixedOrder ==
  result # NoValue =>
    /\ result.results =
         IF config.limit # 0
           THEN SubSeq(SortedRows, 1, MinOf({config.limit, Len(SortedRows)}))
           ELSE SortedRows
    /\ result.rowCount = Len(result.results)

\* a call in which every stage is configured and changes the rows: a filter
\* drops a row, the groups replace the rows, the selection keeps two columns,
\* the ordering moves a row and the limit cuts the result
C7_Witness ==
  /\ result # NoValue
  /\ config.filters # <<>> /\ config.groupBy # NoValue /\ config.select # <<>>
  /\ config.orderBy # NoValue /\ config.limit # 0
  /\ Len(PassedFilters) < Len(data)
  /\ GroupedRows # PassedFilters
  /\ ProjectedRows # GroupedRows
  /\ SortedRows # ProjectedRows
  /\ Len(result.results) < Len(SortedRows)

\* the text a condition for filter f has to show: its column and operator
ConditionHead(f) ==
  f.column \o (CASE f.operator = "equals" -> <<" ", "=", " ">>
                 [] f.operator = "contains" -> <<" ", "L", "I", "K", "E", " ">>
                 [] f.operator = "greater" -> <<" ", ">", " ">>
                 [] f.operator = "less" -> <<" ", "<", " ">>
                 [] f.operator = "between" -> <<" ", "B", "E", "T", "W", "E", "E", "N", " ">>
                 [] f.operator = "in" -> <<" ", "I", "N", " ">>
                 [] f.operator = "isEmpty" -> <<" ", "I", "S", " ", "N", "U", "L", "L">>
                 [] f.operator = "isNotEmpty" -> <<" ", "I", "S", " ", "N", "O", "T", " ", "N", "U", "L", "L">>)

\* the texts of the value(s) of filter f
ConditionValues(f) ==
  IF f.operator \in {"isEmpty", "isNotEmpty"} THEN {}
  ELSE IF "min" \in DOMAIN f.value THEN {NumToStr(f.value.min), NumToStr(f.value.max)}
  ELSE IF "items" \in DOMAIN f.value THEN {f.value.items[i] : i \in 1..Len(f.value.items)}
  ELSE {StringOf(f.value)}

\* the part of an SQL text after its WHERE keyword
AfterWhere(sql) ==
  IF Includes(sql, <<" ", "W", "H", "E", "R", "E", " ">>)
    THEN SubSeq(sql, 7 + (CHOOSE i \in 1..Len(sql) : SubSeq(sql, i, i + 6) = <<" ", "W", "H", "E", "R", "E", " ">>), Len(sql))
    ELSE <<>>

\* the WHERE, GROUP BY and ORDER BY clauses of sql are those of the stages
\* that cfg makes executeQuery apply
SqlMatches(cfg, sql) ==
  /\ Includes(sql, <<" ", "W", "H", "E", "R", "E", " ">>) <=> (cfg.filters # <<>>)
  /\ \A i \in 1..Len(cfg.filters) :
       /\ Includes(AfterWhere(sql), ConditionHead(cfg.filters[i]))
       /\ \A text \in ConditionValues(cfg.filters[i]) : Includes(AfterWhere(sql), text)
  /\ Includes(sql, <<" ", "G", "R", "O", "U", "P", " ", "B", "Y", " ">>) <=> (cfg.groupBy # NoValue)
  /\ cfg.groupBy # NoValue => Includes(sql, <<" ", "G", "R", "O", "U", "P", " ", "B", "Y", " ">> \o cfg.groupBy.column)
  /\ Includes(sql, <<" ", "O", "R", "D", "E", "R", " ", "B", "Y", " ">>) <=> (cfg.orderBy # NoValue)
  /\ cfg.orderBy # NoValue =>
       Includes(sql, <<" ", "O", "R", "D", "E", "R", " ", "B", "Y", " ">> \o cfg.orderBy.column \o <<" ">> \o ToUpper(cfg.orderBy.direction))

\* C8: the SQL text generated for a config has WHERE, GROUP BY and ORDER BY
\* clauses matching the stages applied for it: a condition for every applied
\* filter showing its column, operator and value, GROUP BY on the group
\* column, ORDER BY on the sort column and direction, and no clause for a
\* stage that was not applied.
C8_SqlMatchesAppliedStages ==
  /\ result # NoValue => SqlMatches(config, result.sql)
  /\ emitted # NoValue => SqlMatches(emitted.config, emitted.sql)


(***************************************************************************)
(* Statistics.                                                             *)
(***************************************************************************)
StatFields(r, names) == {r[f] : f \in names}

\* C11: whenever either group passed to tTest has fewer than 2 values (an
\* empty group included), tTest returns the insufficient-data sentinel
\* (tStatistic 0, pValue 1, significant false) and no field of the result
\* is NaN or infinite.
C11_SmallGroupsGiveSentinel ==
  (testResult # NoValue /\ (Len(groups[1]) < 2 \/ Len(groups[2]) < 2)) =>
    /\ testResult.tStatistic = Fin(0)
    /\ testResult.pValue = Whole(1)
    /\ testResult.significant = FALSE
    /\ \A x \in StatFields(testResult, {"tStatistic", "pValue", "effectSize"}) : IsFinite(x)

\* C12: confidenceInterval returns a finite mean, marginOfError, lowerBound
\* and upperBound for every sample of 2 or more values; for a sample of at
\* most 30 values the t-critical value is a number for every n - 1.
C12_ConfidenceIntervalFinite ==
  (ci # NoValue /\ Len(numbers) >= 2) =>
    /\ \A x \in StatFields(ci, {"mean", "marginOfError", "lowerBound", "upperBound"}) : IsFinite(x)
    /\ Len(numbers) <= 30 => IsFinite(tValueFromDF(Len(numbers) - 1))


(***************************************************************************)
(* The sales assistant: intents, name counts and skipped rows.             *)
(***************************************************************************)
\* the rules of parseQuestionToPlan in the order of their priority
IntentRules ==
  <<"WHY_RAW", "QUALITY_SUMMARY", "DUPLICATES", "COUNT_ROWS", "COUNT_NAME", "TOP_VALUES",
    "GROUP_SUM", "SUM">>

IncludesAny(text, words) == \E w \in words : Includes(text, w)

\* the condition of a rule on the lower-cased question
RuleMatches(rule, lower) ==
  CASE rule = "WHY_RAW" -> Includes(lower, <<"w", "h", "y">>) /\ IncludesAny(lower, {<<"r", "a", "w">>, <<"d", "i", "r", "t", "y">>, <<"u", "n", "c", "l", "e", "a", "n">>})
    [] rule = "QUALITY_SUMMARY" -> IncludesAny(lower, {<<"q", "u", "a", "l", "i", "t", "y">>, <<"d", "i", "r", "t", "y">>, <<"i", "s", "s", "u", "e", "s">>, <<"p", "r", "o", "b", "l", "e", "m">>})
    [] rule = "DUPLICATES" -> Includes(lower, <<"d", "u", "p", "l", "i", "c", "a", "t", "e">>)
    [] rule = "COUNT_ROWS" ->
         Includes(lower, <<"h", "o", "w", " ", "m", "a", "n", "y">>) /\ IncludesAny(lower, {<<"r", "o", "w", "s">>, <<"r", "e", "c", "o", "r", "d", "s">>, <<"e", "n", "t", "r", "i", "e", "s">>})
    [] rule = "COUNT_NAME" -> parseNameCount(lower) # NoColumn
    [] rule = "TOP_VALUES" ->
         Includes(lower, <<"t", "o", "p">>) /\ IncludesAny(lower, {<<"c", "u", "s", "t", "o", "m", "e", "r">>, <<"p", "r", "o", "d", "u", "c", "t">>, <<"c", "a", "t", "e", "g", "o", "r", "y">>})
    [] rule = "GROUP_SUM" ->
         /\ IncludesAny(lower, {<<"b", "y", " ", "c", "a", "t", "e", "g", "o", "r", "y">>, <<"b", "y", " ", "p", "r", "o", "d", "u", "c", "t">>, <<"b", "y", " ", "c", "u", "s", "t", "o", "m", "e", "r">>})
         /\ IncludesAny(lower, {<<"s", "a", "l", "e", "s">>, <<"r", "e", "v", "e", "n", "u", "e">>, <<"a", "m", "o", "u", "n", "t">>, <<"t", "o", "t", "a", "l">>})
    [] rule = "SUM" -> Includes(lower, <<"t", "o", "t", "a", "l">>) /\ IncludesAny(lower, {<<"r", "e", "v", "e", "n", "u", "e">>, <<"s", "a", "l", "e", "s">>, <<"a", "m", "o", "u", "n", "t">>})

MatchingRules(lower) == {i \in 1..Len(IntentRules) : RuleMatches(IntentRules[i], lower)}

\* the intent of the first rule in priority order that matches
FirstMatchIntent(lower) ==
  IF MatchingRules(lower) = {} THEN "UNKNOWN"
  ELSE Bind(IntentRules[CHOOSE i \in MatchingRules(lower) : \A j \in MatchingRules(lower) : i <= j],
            LAMBDA rule :
         IF rule # "DUPLICATES" THEN rule
         ELSE IF IncludesAny(lower, {<<"l", "i", "s", "t">>, <<"s", "h", "o", "w">>}) THEN "LIST_DUPLICATES"
         ELSE "COUNT_DUPLICATES")

\* the question that was asked, trimmed and in lower case
AskedLower == ToLower(Trim(args.question))

AskedPlan == parseQuestionToPlan(args.question, args.headers)

\* C13: parseQuestionToPlan gives every question exactly one intent of the
\* closed set, that of the first rule that matches the lower-cased text in
\* the order WHY_RAW, QUALITY_SUMMARY, LIST_/COUNT_DUPLICATES, COUNT_ROWS,
\* COUNT_NAME, TOP_VALUES, GROUP_SUM, SUM, also when later rules match too;
\* UNKNOWN exactly when no rule matches.
C13_FirstMatchingRuleDecides ==
  answer # NoValue => AskedPlan.intent = FirstMatchIntent(AskedLower)

\* a question that three rules match was answered by the first of them
C13_Witness ==
  /\ answer # NoValue
  /\ answer.reply = "duplicate count"
  /\ Cardinality(MatchingRules(AskedLower)) >= 3
  /\ AskedPlan.intent = "COUNT_DUPLICATES"

\* the maximal runs of characters of text that satisfy Keep
Runs(text, Keep(_)) ==
  {SubSeq(text, r[1], r[2]) : r \in {r \in (1..Len(text)) \X (1..Len(text)) :
     /\ r[1] <= r[2]
     /\ \A k \in r[1]..r[2] : Keep(text[k])
     /\ r[1] = 1 \/ ~Keep(text[r[1] - 1])
     /\ r[2] = Len(text) \/ ~Keep(text[r[2] + 1])}}

\* the rows answerSalesQuestion considers: those that pass the filters
ConsideredRows == applyFilters(args.rows, args.headers, AskedPlan.filters)

\* the text of the customer cell of every considered row, in lower case
CustomerCells ==
  [i \in 1..Len(ConsideredRows) |->
     ToLower(StrOrEmpty(Cell(ConsideredRows[i], args.headers, resolveColumn(args.headers, "customer"))))]

C15_SkippedRowsReported ==
  (answer # NoValue /\ answer.reply \in {"top values", "no values", "group sum", "no groups"}) =>
    "skipped" \in DOMAIN answer.result


(***************************************************************************)
(* The cleaning passes.                                                    *)
(***************************************************************************)
\* the cells of the cleaned rows in the columns of the schema, with the type
\* of their column
SchemaCells ==
  {[v |-> heap[cleanedRows[k]][i], type |-> dataSummary.columnDetails[i].type] :
     k \in 1..Len(cleanedRows), i \in 1..Len(dataSummary.columnDetails)}

\* C16: after the missing pass (modes missing and auto) every cell of a
\* schema column that was empty under the emptiness predicate has been
\* replaced by the placeholder of its column type, so that no cell of a
\* schema column is empty.
C16_NoEmptyCellAfterMissingPass ==
  lastOp \in {"missing", "auto"} => \A c \in SchemaCells : ~isEmpty(c.v)

\* C17: after the invalid pass (modes invalid and auto) every cell of a
\* number column is a valid number and every cell of a date column is a
\* valid date in the form YYYY-MM-DD: no cell fails validity for the type of
\* its column.
C17_NoInvalidCellAfterInvalidPass ==
  lastOp \in {"invalid", "auto"} =>
    \A c \in SchemaCells :
      /\ c.type = "number" => (c.v.t = "num" \/ tryParseNumberOk(c.v))
      /\ c.type = "date" => (isEmpty(c.v) \/ (c.v.t = "str" /\ IsIsoDate(c.v.s)))

\* the values the outlier rule is stated over: the numbers of the cells of
\* the column that are not missing, in ascending order
StatedValues == SortAsc(ColumnNumbers(columnCells))

\* the values of the column the stated rule flags
StatedOutliers ==
  {v \in {StatedValues[i] : i \in 1..Len(StatedValues)} :
     OutsideFences(v, StatedValues[Len(StatedValues) \div 4 + 1],
                   StatedValues[(3 * Len(StatedValues)) \div 4 + 1])}

\* C18: IQR outlier detection flags a value if and only if it is strictly
\* below Q1 - 1.5 IQR or strictly above Q3 + 1.5 IQR, where Q1 and Q3 are
\* the sorted numeric non-missing values of the column at the indices
\* floor(n * 0.25) and floor(n * 0.75), both in the anomalies of a numeric
\* column and in the box plot; a value on a fence is not flagged, and for
\* [10, 12, 11, 13, 1000] the outlier set is exactly {1000}.
C18_IqrOutliers ==
  /\ (anomalyInfo # NoValue /\ ColumnNumbers(columnCells) # <<>>) =>
        {anomalyInfo.anomalies[i].value : i \in 1..Len(anomalyInfo.anomalies)} = StatedOutliers
  /\ boxPlot # NoValue =>
        {boxPlot.outliers[i] : i \in 1..Len(boxPlot.outliers)} = StatedOutliers

\* the number Number.isFinite accepts after commas and currency signs are removed
StatedNumberOk(v) == IsNumberText(SelectSeq(Trim(CellToStr(v)), LAMBDA c : c \notin {Comma, "$"}))

\* the invalid count the analysis reports for column i
ReportedInvalid(i) ==
  IF \E c \in 1..Len(cleaningIssues.invalidTypes) : cleaningIssues.invalidTypes[c].name = headers[i]
    THEN cleaningIssues.invalidTypes[CHOOSE c \in 1..Len(cleaningIssues.invalidTypes) :
                                       cleaningIssues.invalidTypes[c].name = headers[i]].invalid
    ELSE 0

\* C19: the numeric parse of the schema inferencer accepts a non-empty cell
\* if and only if the cell, with its thousands-separator commas and its
\* currency signs removed, converts to a finite number, and the invalid
\* count of a number column counts the other non-empty cells; the cell
\* "1,234.56" in a column of plain numbers parses to 1234.56 and is not
\* counted as invalid.
C19_NumberParseStripsCommasAndCurrency ==
  lastOp = "analyze" =>
    \A i \in 1..Len(headers) :
      dataSummary.columnDetails[i].type = "number" =>
        /\ \A k \in 1..Len(cleanedRows) :
             Bind(heap[cleanedRows[k]][i], LAMBDA v :
               /\ ~isEmpty(v) => (tryParseNumber(v).ok <=> StatedNumberOk(v))
               /\ v = Str(<<"1", ",", "2", "3", "4", ".", "5", "6">>) => tryParseNumber(v) = [ok |-> TRUE, value |-> Fin(12345600)])
        /\ ReportedInvalid(i) =
             Cardinality({k \in 1..Len(cleanedRows) :
                            /\ ~isEmpty(heap[cleanedRows[k]][i])
                            /\ ~StatedNumberOk(heap[cleanedRows[k]][i])})

\* C20: compareSegments returns a finite rowCountDiffPercent and a
\* significance flag equal to |rowCountDiffPercent| > 10 for every input,
\* also when one or both of the segments hold no row: the result is never
\* NaN or an infinity.
C20_SegmentComparisonFinite ==
  comparison # NoValue =>
    /\ IsFinite(comparison.result.differences.rowCountDiffPercent)
    /\ comparison.result.isDifferentSignificant
         = FLess(Whole(10), FAbs(comparison.result.differences.rowCountDiffPercent))

\* the statistics of the two segments of the last comparison
Segment1 == comparison.result.segment1

Segment2 == comparison.result.segment2

\* C21: whenever both segments hold at least one numeric value in the
\* analysed column, compareSegments returns meanDiff, medianDiff and
\* stdevDiff as the difference segment1 - segment2 of the statistics,
\* rounded to two decimals, whatever the values of the statistics are.
C21_AbsoluteDeltasReturned ==
  (comparison # NoValue /\ Segment1.mean # NoNumber /\ Segment2.mean # NoNumber) =>
    /\ comparison.result.differences.meanDiff = RoundTo(FSub(Segment1.mean, Segment2.mean), 100)
    /\ comparison.result.differences.medianDiff = RoundTo(FSub(Segment1.median, Segment2.median), 100)
    /\ comparison.result.differences.stdevDiff = RoundTo(FSub(Segment1.stdev, Segment2.stdev), 100)

\* C22: after any sequence of LineageTracker operations (initialize,
\* recordFilter, recordAggregation, recordTransformation, recordExport, in
\* any order and with any row counts, 0 included) calculateTrustScore returns
\* a number between 0 and 100 inclusive.
C22_TrustScoreInRange ==
  history # NoValue =>
    /\ IsFinite(history.dataTrustScore)
    /\ history.dataTrustScore.v >= 0
    /\ history.dataTrustScore.v <= 100 * Scale

\* the number of quotes of s before position p
QuotesBefore(s, p) == Cardinality({q \in 1..(p - 1) : q <= Len(s) /\ s[q] = Quote})

\* the commas of s before position p with an even number of quotes before them
CommasOutsideBefore(s, p) ==
  Cardinality({q \in 1..(p - 1) : q <= Len(s) /\ s[q] = Comma /\ QuotesBefore(s, q) % 2 = 0})

\* the rules of one step of the tokenizer
TokenizerStep ==
  /\ (AtChar /\ csvLine[tokenizer.i] = Quote /\ ~AtEscapedQuote) =>
        /\ tokenizer'.inQuotes = ~tokenizer.inQuotes
        /\ tokenizer'.cur = tokenizer.cur /\ tokenizer'.out = tokenizer.out
  /\ AtEscapedQuote =>
        /\ tokenizer'.inQuotes = tokenizer.inQuotes
        /\ tokenizer'.cur = Append(tokenizer.cur, Quote) /\ tokenizer'.out = tokenizer.out
  /\ (AtChar /\ csvLine[tokenizer.i] = Comma) =>
        (Len(tokenizer'.out) = Len(tokenizer.out) + 1) = ~tokenizer.inQuotes
  /\ (AtChar /\ csvLine[tokenizer.i] # Quote /\ ~(csvLine[tokenizer.i] = Comma /\ ~tokenizer.inQuotes)) =>
        /\ tokenizer'.cur = Append(tokenizer.cur, csvLine[tokenizer.i])
        /\ tokenizer'.inQuotes = tokenizer.inQuotes /\ tokenizer'.out = tokenizer.out
  /\ (~tokenizer.done /\ tokenizer.i > Len(csvLine)) =>
        tokenizer'.done /\ Len(tokenizer'.out) = Len(tokenizer.out) + 1

\* C23: the per-line CSV tokenizer is a two-state machine: a quote toggles
\* inQuotes, except that a doubled quote met while inQuotes appends one
\* literal quote and leaves the state unchanged; a comma ends the current
\* field only when not inQuotes; every other character is appended to the
\* current field; at the end of the line the last field is flushed.  So
\* every line yields (number of commas outside quotes + 1) fields, the same
\* fields parseLine returns, and the machine has a step to take on every
\* input until the last field is flushed.
C23_TokenizerMachine ==
  /\ [](/\ tokenizer.inQuotes = (QuotesBefore(csvLine, tokenizer.i) % 2 = 1)
        /\ Len(tokenizer.out) = CommasOutsideBefore(csvLine, tokenizer.i) + (IF tokenizer.done THEN 1 ELSE 0)
        /\ tokenizer.done =>
             /\ Len(tokenizer.out) = CommasOutsideBefore(csvLine, Len(csvLine) + 1) + 1
             /\ tokenizer.out = parseLine(csvLine)
        /\ ~tokenizer.done => (AtChar \/ tokenizer.i > Len(csvLine)))
  /\ [][TokenizerStep]_vars

\* a line with a comma inside quotes, a doubled quote and a comma outside
\* quotes has been read to its end
C23_Witness ==
  /\ tokenizer # NoValue /\ tokenizer.done
  /\ csvLine = <<Quote, Comma, Quote, Quote, Quote, Comma>>
  /\ tokenizer.out = <<<<Comma, Quote>>, <<>>>>

\* the first SampleSize non-empty values of the column
FirstNonEmpty ==
  Bind(SelectSeq([k \in 1..Len(sampleColumn) |-> k], LAMBDA k : ~isEmpty(sampleColumn[k])), LAMBDA at :
    [k \in 1..(IF Len(at) < SampleSize THEN Len(at) ELSE SampleSize) |-> sampleColumn[at[k]]])

\* how many of them parse as numbers, and as dates
NumberShare == Cardinality({k \in 1..Len(FirstNonEmpty) : tryParseNumber(FirstNonEmpty[k]).ok})

DateShare == Cardinality({k \in 1..Len(FirstNonEmpty) : tryParseDateOk(FirstNonEmpty[k], lenient)})

\* C24: inferType looks at no more than the first 40 non-empty values of a
\* column and returns number when the share of them that parse as numbers
\* is at least 0.85; otherwise date when the share that parse as dates is at
\* least 0.85 and the numeric share is below 0.5; otherwise string.
C24_InferTypeThresholds ==
  inferredType # NoValue =>
    inferredType.type =
      (IF FirstNonEmpty # <<>> /\ 100 * NumberShare >= 85 * Len(FirstNonEmpty) THEN "number"
       ELSE IF FirstNonEmpty # <<>> /\ 100 * DateShare >= 85 * Len(FirstNonEmpty)
                 /\ 2 * NumberShare < Len(FirstNonEmpty) THEN "date"
       ELSE "string")

\* a column of more than 40 non-empty values whose first 40 hold 33 numbers
\* has been typed string although 53 of its 60 values are numbers
C24_Witness ==
  /\ inferredType # NoValue /\ inferredType.type = "string"
  /\ Len(FirstNonEmpty) = SampleSize /\ NumberShare = 33
  /\ Cardinality({k \in 1..Len(sampleColumn) : tryParseNumber(sampleColumn[k]).ok}) = 53
  /\ Len(sampleColumn) = 60

\* the set of rows of a collection, a row being the values of its cells
RowSet(vals) == {vals[k] : k \in 1..Len(vals)}

\* C25: auto-clean duplicate removal drops a row only if an earlier kept row
\* has the same value in every column: every row that the missing and the
\* invalid pass produce is still among the cleaned rows, and two rows that
\* differ in at least one column are never merged.
C25_DedupeMergesOnlyEqualRows ==
  [][lastOp' = "auto" =>
       RowSet(PassOver(PassOver(RowVals(heap, cleanedRows), dataSummary.columnDetails, "missing"),
                       dataSummary.columnDetails, "invalid"))
         \subseteq RowSet(RowVals(heap', cleanedRows'))]_vars

\* the rows of before at the places of S, in their order
Pick(before, S) ==
  Bind(SelectSeq([k \in 1..Len(before) |-> k], LAMBDA k : k \in S), LAMBDA idx :
    [m \in 1..Len(idx) |-> before[idx[m]]])

\* after holds rows of before, each at most once and in the order of before
KeptInOrder(after, before) == \E S \in SUBSET (1..Len(before)) : after = Pick(before, S)

\* C26: cleaning never adds or reorders rows: after any sequence of
\* handleClean calls cleanedRows.length <= rows.length, so that rowsCleaned
\* = rows.length - cleanedRows.length is never negative; modes missing and
\* invalid leave the number and the order of the rows unchanged, and only
\* mode auto can remove rows.
C26_CleaningNeverAddsRows ==
  /\ [](Len(cleanedRows) <= Len(rows))
  /\ [][/\ lastOp' \in {"missing", "invalid"} =>
             RowVals(heap', cleanedRows') =
               PassOver(RowVals(heap, cleanedRows), dataSummary.columnDetails, lastOp')
        /\ lastOp' = "auto" =>
             KeptInOrder(RowVals(heap', cleanedRows'),
                         PassOver(PassOver(RowVals(heap, cleanedRows), dataSummary.columnDetails, "missing"),
                                  dataSummary.columnDetails, "invalid"))
        /\ lastOp' \in CleanModes => rows' = rows /\ RowVals(heap', rows') = RowVals(heap, rows)]_vars

\* after an auto clean that removed two of three rows, a missing clean has
\* left the one cleaned row in place
C26_Witness ==
  /\ lastOp = "missing"
  /\ Len(rows) = 3
  /\ Len(cleanedRows) = 1

\* what the application holds is the analysis of the selected file
ResultsOfSelectedFile ==
  Bind(analyzeCsvFile(selectedFile, lenient), LAMBDA r :
    /\ dataSummary = r.dataSummary
    /\ cleaningIssues = r.cleaningIssues
    /\ RowVals(heap, rows) = r.rows
    /\ RowVals(heap, cleanedRows) = r.rows)

\* while an analysis is in flight no step starts another one
NoSecondAnalysis == [][isAnalyzing => (inFlight' = inFlight \/ ~isAnalyzing')]_vars

\* C27: whenever an analysis completes and the app moves to the cleaning
\* screen, dataSummary, cleaningIssues, rows and cleanedRows are all derived
\* from the file currently held in selectedFile, even if the user drops or
\* picks another file while an analysis is in flight, and no second analysis
\* can start while isAnalyzing is true.
C27_ResultsOfSelectedFile ==
  /\ []((currentScreen = "cleaning" /\ lastOp = "analyze") => ResultsOfSelectedFile)
  /\ NoSecondAnalysis

\* the two groups of the last tTest call hold at least 2 values each, have
\* equal means and do not both have variance 0
EqualMeansCase ==
  /\ testResult # NoValue
  /\ Len(groups[1]) >= 2 /\ Len(groups[2]) >= 2
  /\ Mean(groups[1]) = Mean(groups[2])
  /\ (SampleVariance(groups[1]) # Fin(0) \/ SampleVariance(groups[2]) # Fin(0))

\* C28: tTest never reports significant = true when the two groups have
\* equal means: for any two groups of at least 2 values each with equal
\* means and non-zero pooled variance, the t-statistic is 0 and the returned
\* pValue is not below 0.05.
C28_EqualMeansNotSignificant ==
  EqualMeansCase =>
    /\ testResult.tStatistic = Fin(0)
    /\ ~FLess(testResult.pValue, Fin(500))
    /\ testResult.significant = FALSE

\* the number a cell denotes for the schema inferencer: the number itself,
\* or the value tryParseNumber accepts its text as; NoNumber otherwise
AcceptedNumber(v) ==
  IF v.t = "num" THEN Whole(v.n)
  ELSE IF tryParseNumber(v).ok THEN tryParseNumber(v).value
  ELSE NoNumber

\* C29: the invalid pass keeps the numeric value of every number-column cell
\* that the schema inferencer's numeric parse accepts as valid (a cell
\* accepted as 1234.56 still denotes 1234.56 afterwards); only cells that
\* fail numeric validity are replaced by 0.
C29_InvalidPassKeepsAcceptedNumbers ==
  [][lastOp' = "invalid" =>
       \A k \in 1..Len(cleanedRows), i \in 1..Len(dataSummary.columnDetails) :
         dataSummary.columnDetails[i].type = "number" =>
           /\ AcceptedNumber(heap[cleanedRows[k]][i]) # NoNumber =>
                AcceptedNumber(heap'[cleanedRows'[k]][i]) = AcceptedNumber(heap[cleanedRows[k]][i])
           /\ ~tryParseNumber(heap[cleanedRows[k]][i]).ok =>
                heap'[cleanedRows'[k]][i] = Num(0)]_vars

\* the one filter of the query made from the user's text
InputFilter == config.filters[1]

\* C30: an equals filter whose value comes from user-entered text
\* (buildFilterFromInput or the query-builder UI) keeps exactly the rows
\* whose cell in that column, written as text, equals the entered text,
\* including rows where the cell is stored as a number.
C30_EqualsMatchesCellText ==
  (result # NoValue /\ InputFilter.operator = "equals") =>
    result.results =
      SelectSeq(data, LAMBDA row : StringOf(Field(row, InputFilter.column)) = StringOf(InputFilter.value))

====
